---------------------------- MODULE Spec2Model ----------------------------
(***************************************************************************)
(* Verification model of the crash-report extraction pipeline              *)
(* (logagents): span selection (core/chunking.py), the adaptive task       *)
(* scheduler (pipelines/pl_extract.py main), grounding validation          *)
(* (core/sanitize.py), the deterministic fallback (core/fallback.py) and   *)
(* the canonical orderer (core/ordering.py).                               *)
(*                                                                         *)
(* The module holds one state machine per component.  Each has its own     *)
(* variables, Init and Next; a component that is not the subject of a      *)
(* specification stays in its idle state.                                  *)
(*   WinSpec    make_windows on a log given by its length and anchors      *)
(***************************************************************************)
EXTENDS Integers, Sequences, FiniteSets, TLC

VARIABLES
    \* ---- span selector (core/chunking.py)
    docLen,        \* len(lines)
    anchorIdx,     \* indices of the lines matching RE_ANCHORS or RE_SECONDARY
    winPc,         \* "idle" | "start" | "chunk" | "done"
    spans,         \* list of (start, end), half open, zero based
    span_mode,     \* "" | "anchor" | "sliding"
    chunk_i,       \* loop variable i of chunk_lines
    cfg_max_lines, \* cfg["max_lines_per_chunk"], make_windows' max_lines
    cfg_stride,    \* cfg["chunk_stride"], make_windows' stride
    \* ---- adaptive policy applied along one parent-to-child chain
    polStart,      \* the task the chain starts from
    polTask,       \* the task schedule_adaptive is applied to next
    polSteps,      \* applications of schedule_adaptive so far
    polPc,         \* "idle" | "run" | "fallback"
    polRec,        \* rec.meta["chunks"]: the provenance entries of the chain
    \* ---- adaptive task scheduler (pipelines/pl_extract.py main, one record)
    nWin,          \* len(spans): the windows are 1..nWin (gid "#c1", "#c2", ...)
    group_size,    \* cfg group_size
    max_workers,   \* cfg LLM_CONCURRENCY
    fbText,        \* window -> lines rule_extract_fallback finds in its text
    workq,         \* deque of pending tasks, left end first
    futures,       \* tasks in flight, each with the state of its worker
    done_gids,
    fail_gids,
    chunk_segments,\* window -> list of segments (a segment is a list of lines)
    segOrder,      \* key order of the dict chunk_segments (insertion order)
    schedPc,       \* "idle" | "fill" | "loop" | "final" | "merge" | "done"
    hist,          \* per completed task, the windows its response kept
    candidate_text,\* merged lines
    \* ---- canonical orderer (core/ordering.py)
    ordIn,         \* raw: the lines of the text given to order_normalize
    ordOut,        \* the lines order_normalize returns, each with its bucket
    ordOut2,       \* the lines of order_normalize applied to its own output
    ordPc,         \* "idle" | "in" | "once" | "twice"
    \* ---- grounding of window results (core/sanitize.py, core/fallback.py)
    logtxt,        \* the characters of the source log
    sanSegs,       \* chunk_segments: the stored segments, each with its origin
    sanPc,         \* "idle" | "run"
    \* ---- post-processing of the merged candidate (main, lines 256-301)
    postLog,       \* lines: the lines of the source log
    call_trace_max,\* args.call_trace_max
    postMerged,    \* the merged candidate, as lines
    postBefore,    \* the candidate handed to apply_syzbot_policy
    postCand,      \* candidate_text, as lines
    qm_filtered,   \* the policy field question_mark_filtered of the record
    postPc,        \* "idle" | "merged" | "augmented" | "policied" | "done"
    \* ---- the loop of main over the input records (lines 95-307)
    logs,          \* the input records, each [id, log]
    rowIdx,        \* the number of rows the loop has been through
    all_candidates,\* the records appended so far, each [id, candidate]
    all_explains,  \* per row: [id, status, merged], what its windows gave
    candidates_jsonl, \* the records written to candidates.jsonl
    mainPc,        \* "idle" | "loop" | "written"
    \* ---- one task of one window, from the answer to the loop's branch
    colLog,        \* the characters of the source log
    colTask,       \* the task
    colSeg,        \* parts[g]: the answer's part for the window
    colRes,        \* what submit_and_collect returned: status and result_map[g]
    colNext,       \* the branch main took: "" | "done" | "retry" | "fallback"
    colPc          \* "idle" | "call" | "collected" | "handled"

winVars ==
    <<docLen, anchorIdx, winPc, spans, span_mode, chunk_i, cfg_max_lines,
      cfg_stride>>
polVars == <<polStart, polTask, polSteps, polPc, polRec>>
schedVars == <<nWin, group_size, max_workers, fbText, workq, futures, done_gids,
               fail_gids, chunk_segments, segOrder, schedPc, hist,
               candidate_text>>

ordVars == <<ordIn, ordOut, ordOut2, ordPc>>

sanVars == <<logtxt, sanSegs, sanPc>>

postVars == <<postLog, call_trace_max, postMerged, postBefore, postCand,
              qm_filtered, postPc>>
mainVars == <<logs, rowIdx, all_candidates, all_explains, candidates_jsonl,
              mainPc>>
colVars == <<colLog, colTask, colSeg, colRes, colNext, colPc>>

vars ==
    <<winVars, polVars, schedVars, ordVars, sanVars, colVars, postVars,
      mainVars>>

\* What the steps of one component leave alone.
notWinVars ==
    <<polVars, schedVars, ordVars, sanVars, colVars, postVars,
      mainVars>>
notPolVars ==
    <<winVars, schedVars, ordVars, sanVars, colVars, postVars,
      mainVars>>
notSchedVars ==
    <<winVars, polVars, ordVars, sanVars, colVars, postVars,
      mainVars>>
notOrdVars ==
    <<winVars, polVars, schedVars, sanVars, colVars, postVars,
      mainVars>>
notSanVars ==
    <<winVars, polVars, schedVars, ordVars, colVars, postVars,
      mainVars>>
notColVars ==
    <<winVars, polVars, schedVars, ordVars, sanVars, postVars,
      mainVars>>
notPostVars ==
    <<winVars, polVars, schedVars, ordVars, sanVars, colVars, mainVars>>
notMainVars ==
    <<winVars, polVars, schedVars, ordVars, sanVars, colVars, postVars>>

\* ------------------------------------------------------------------------
\* Generic helpers
\* ------------------------------------------------------------------------
Max(a, b) == IF a >= b THEN a ELSE b
Min(a, b) == IF a <= b THEN a ELSE b
Last(s) == s[Len(s)]

\* ------------------------------------------------------------------------
\* Span selector: core/chunking.py
\* ------------------------------------------------------------------------
\* Bounds of the logs explored.
MaxDocLen == 64
MaxAnchors == 2
\* The spans of a chunk_lines loop the model keeps.
MaxSpans == MaxDocLen + 1

\* Configuration defaults read in pl_extract.py main.
max_lines == 60
stride == 50
\* Hard-wired numbers of chunking.py.
PRE == 20
MERGE_GAP == 10

\* The ascending list of the members of a finite set of integers.
RECURSIVE SetToSortedSeq(_)
SetToSortedSeq(S) ==
    IF S = {} THEN <<>>
    ELSE LET m == CHOOSE x \in S : \A y \in S : x <= y
         IN <<m>> \o SetToSortedSeq(S \ {m})

\* _find_anchor_lines: the matching indices in ascending order, no repeats.
find_anchor_lines == SetToSortedSeq(anchorIdx)

\* Lexicographic order on (s, e) pairs, as Python's sorted() on tuples.
PairLeq(p, q) == p[1] < q[1] \/ (p[1] = q[1] /\ p[2] <= q[2])

RECURSIVE InsertSorted(_, _)
InsertSorted(p, s) ==
    IF s = <<>> THEN <<p>>
    ELSE IF PairLeq(p, Head(s)) THEN <<p>> \o s
    ELSE <<Head(s)>> \o InsertSorted(p, Tail(s))

RECURSIVE SortedPairs(_)
SortedPairs(s) ==
    IF s = <<>> THEN <<>> ELSE InsertSorted(Head(s), SortedPairs(Tail(s)))

\* The re-clip of a merged interval that grew beyond max_lines.
Reclip(s, e, ml) == IF e - s > ml THEN s + ml ELSE e

\* One iteration of the loop of _merge_intervals.
MergeOne(merged, iv, ml) ==
    IF merged = <<>> \/ iv[1] > Last(merged)[2] - MERGE_GAP
    THEN Append(merged, iv)
    ELSE LET s0 == Last(merged)[1]
             e1 == Max(Last(merged)[2], iv[2])
         IN [merged EXCEPT ![Len(merged)] = <<s0, Reclip(s0, e1, ml)>>]

RECURSIVE MergeLoop(_, _, _)
MergeLoop(merged, ivs, ml) ==
    IF ivs = <<>> THEN merged
    ELSE MergeLoop(MergeOne(merged, Head(ivs), ml), Tail(ivs), ml)

merge_intervals(intervals, ml) ==
    IF intervals = <<>> THEN <<>>
    ELSE MergeLoop(<<>>, SortedPairs(intervals), ml)

\* The interval built around one anchor.
AnchorInterval(a, n, ml, pre) ==
    LET s == Max(0, a - pre)
        e == Min(n, s + ml)
    IN <<s, e>>

anchor_spans(n, ml, pre) ==
    LET anchors == find_anchor_lines
    IN IF anchors = <<>> THEN <<>>
       ELSE merge_intervals(
              [k \in 1..Len(anchors) |-> AnchorInterval(anchors[k], n, ml, pre)], ml)

\* The subsets of S with at most k members.
RECURSIVE SubsetsUpTo(_, _)
SubsetsUpTo(S, k) ==
    IF k = 0 THEN {{}}
    ELSE LET P == SubsetsUpTo(S, k - 1)
         IN P \cup {T \cup {x} : T \in P, x \in S}

\* The configurations explored: the defaults, and small windows with a
\* stride of zero, below, equal to and above max_lines.
WinConfigs ==
    {<<ml, st>> : ml \in {3, max_lines}, st \in {0, 2, 3, 5, stride}}

\* Mutant of the step of chunk_lines: the next window starts stride lines
\* before the end of this one.
NextStart_Overlap(i, j, ml, st) == Max(0, j - st)

\* chunk_lines: the start of the window after (i, j).
NextStart(i, j, ml, st) == Max(0, j - (ml - st))

\* Mutant of the end of a window of chunk_lines: not clipped to the log.
WindowEnd_Unclipped(i, n, ml) == i + ml

\* chunk_lines: the end of the window that starts at i.
WindowEnd(i, n, ml) == Min(i + ml, n)

WinIdle ==
    /\ docLen = 0 /\ anchorIdx = {} /\ winPc = "idle"
    /\ spans = <<>> /\ span_mode = "" /\ chunk_i = 0
    /\ cfg_max_lines = max_lines /\ cfg_stride = stride

\* stride is read by chunk_lines only: a log with anchors is explored with
\* the default stride.
WinStart ==
    /\ docLen \in 1..MaxDocLen
    /\ anchorIdx \in SubsetsUpTo(0..(docLen - 1), MaxAnchors)
    /\ \E c \in WinConfigs :
          /\ cfg_max_lines = c[1]
          /\ cfg_stride = c[2]
          /\ anchorIdx # {} => c[2] = stride
    /\ winPc = "start"
    /\ spans = <<>>
    /\ span_mode = ""
    /\ chunk_i = 0

\* make_windows, anchor branch: anchor_spans returned a non-empty list.
MakeWindowsAnchor ==
    /\ winPc = "start"
    /\ anchor_spans(docLen, cfg_max_lines, PRE) # <<>>
    /\ spans' = anchor_spans(docLen, cfg_max_lines, PRE)
    /\ span_mode' = "anchor"
    /\ winPc' = "done"
    /\ UNCHANGED <<docLen, anchorIdx, chunk_i, cfg_max_lines, cfg_stride>>
    /\ UNCHANGED notWinVars

\* make_windows, sliding branch: enters chunk_lines with i = 0.
MakeWindowsSliding ==
    /\ winPc = "start"
    /\ anchor_spans(docLen, cfg_max_lines, PRE) = <<>>
    /\ span_mode' = "sliding"
    /\ chunk_i' = 0
    /\ winPc' = "chunk"
    /\ UNCHANGED <<docLen, anchorIdx, spans, cfg_max_lines, cfg_stride>>
    /\ UNCHANGED notWinVars

\* One iteration of the while loop of chunk_lines. Of a list that grows
\* without end the model keeps the first MaxSpans spans.
ChunkLoop ==
    /\ winPc = "chunk"
    /\ chunk_i < docLen
    /\ LET j == WindowEnd(chunk_i, docLen, cfg_max_lines)
       IN /\ spans' = IF Len(spans) < MaxSpans
                      THEN Append(spans, <<chunk_i, j>>)
                      ELSE spans
          /\ IF j = docLen
             THEN winPc' = "done" /\ chunk_i' = chunk_i
             ELSE /\ winPc' = "chunk"
                  /\ chunk_i' = NextStart(chunk_i, j, cfg_max_lines, cfg_stride)
    /\ UNCHANGED <<docLen, anchorIdx, span_mode, cfg_max_lines, cfg_stride>>
    /\ UNCHANGED notWinVars

WinNext == MakeWindowsAnchor \/ MakeWindowsSliding \/ ChunkLoop

\* ------------------------------------------------------------------------
\* Adaptive policy: core/chunking.py Task, schedule_adaptive
\* ------------------------------------------------------------------------
\* Defaults of schedule_adaptive (main calls it with the task alone).
SPLIT_MAX_DEPTH == 2
SHRINK_MAX_DEPTH == 3
MIN_TOK == 220
MIN_LINES == 30
\* token_budget default read in main.
token_budget == 500

\* Bounds of the tasks a chain may start from.
MaxGids == 3
MaxStartDepth == 4

Task(gids, tok, ml, st, depth, fs) ==
    [gids |-> gids, tok_budget |-> tok, max_lines |-> ml, stride |-> st,
     depth |-> depth, fewshot_level |-> fs]

\* int(x * 0.7) in IEEE double arithmetic, for 0 <= x <= 1000: the product of
\* these multiples of ten falls just below the integer 7x/10, and int()
\* truncates it to one less (int(350 * 0.7) = 244).
FloatShort == {90, 170, 180, 330, 340, 350, 360, 650, 660, 670, 680, 690,
               700, 710, 720, 730}
\* Mutant of IntMul07: the budget is not multiplied.
IntMul07_Whole(x) == x

IntMul07(x) == ((x * 7) \div 10) - (IF x \in FloatShort THEN 1 ELSE 0)

\* Mutant of ChildDepth: the child keeps its parent's depth.
ChildDepth_SameDepth(task) == task.depth

\* The depth a child task is created with.
ChildDepth(task) == task.depth + 1

\* Mutant of RightHalf: the right child starts at the last window of the left.
RightHalf_FromMid(gids, mid) == SubSeq(gids, mid, Len(gids))

\* Mutant of LeftHalf: the left child keeps every window of the parent.
LeftHalf_Whole(gids, mid) == gids

\* task.gids[:mid] and task.gids[mid:]
LeftHalf(gids, mid) == SubSeq(gids, 1, mid)
RightHalf(gids, mid) == SubSeq(gids, mid + 1, Len(gids))

schedule_adaptive(task) ==
    LET n == Len(task.gids)
        next_tok == Max(IntMul07(task.tok_budget), MIN_TOK)
        next_ln == Max(IntMul07(task.max_lines), MIN_LINES)
        next_fs == Max(task.fewshot_level - 1, 0)
    IN IF n > 1 /\ task.depth < SPLIT_MAX_DEPTH
       THEN LET mid == (n + 1) \div 2
            IN << Task(LeftHalf(task.gids, mid), next_tok, next_ln,
                       task.stride, ChildDepth(task), next_fs),
                  Task(RightHalf(task.gids, mid), next_tok, next_ln,
                       task.stride, ChildDepth(task), next_fs) >>
       ELSE IF task.depth < SHRINK_MAX_DEPTH
       THEN << Task(task.gids, next_tok, next_ln, task.stride,
                    ChildDepth(task), next_fs) >>
       ELSE <<>>

NoTask == Task(<<>>, 0, 0, 0, 0, 0)

PolIdle ==
    /\ polStart = NoTask /\ polTask = NoTask /\ polSteps = 0 /\ polPc = "idle"
    /\ polRec = <<>>

\* How a task's call can fail: the deadline passed, llm.chat raised, or the
\* answer held no marker pair or no line that passed sanitize_from_log.
FailKinds == {"timeout", "raise", "nomarker", "ungrounded"}

\* rec.add_chunk_result as submit_and_collect calls it for each window of a
\* failed task: span "timeout" on TimeoutError, span "ok" with no kept line
\* on an empty answer; an exception of llm.chat leaves before any call.
add_chunk_result(task, kind) ==
    IF kind = "raise" THEN <<>>
    ELSE [k \in 1..Len(task.gids) |->
            [chunk_id |-> task.gids[k],
             span |-> IF kind = "timeout" THEN "timeout" ELSE "ok",
             fewshot_level |-> task.fewshot_level,
             model_out_len |-> IF kind = "ungrounded" THEN 1 ELSE 0,
             kept_lines |-> 0,
             dropped_reason |-> IF kind = "timeout" THEN "timeout"
                                ELSE IF kind = "ungrounded"
                                THEN "empty_after_sanitize" ELSE ""]]

\* Any task: window lists of 1..MaxGids ids, any depth up to MaxStartDepth,
\* budgets above and below the floors, any few-shot level.
PolStart ==
    /\ \E n \in 1..MaxGids, d \in 0..MaxStartDepth, tok \in {token_budget, 200},
          ml \in {max_lines, 20}, fs \in 0..2 :
         polStart = Task([k \in 1..n |-> k], tok, ml, stride, d, fs)
    /\ polTask = polStart
    /\ polSteps = 0
    /\ polPc = "run"
    /\ polRec = <<>>

\* The task failed; schedule_adaptive returns children and the chain goes on
\* with one of them.
PolRetry ==
    /\ polPc = "run"
    /\ schedule_adaptive(polTask) # <<>>
    /\ \E k \in 1..Len(schedule_adaptive(polTask)) :
         polTask' = schedule_adaptive(polTask)[k]
    /\ polSteps' = polSteps + 1
    /\ \E kind \in FailKinds : polRec' = polRec \o add_chunk_result(polTask, kind)
    /\ UNCHANGED <<polStart, polPc>>
    /\ UNCHANGED notPolVars

\* The task failed and schedule_adaptive returns no child: the windows go to
\* rule_extract_fallback, and main records nothing about it.
PolFallback ==
    /\ polPc = "run"
    /\ schedule_adaptive(polTask) = <<>>
    /\ polSteps' = polSteps + 1
    /\ \E kind \in FailKinds : polRec' = polRec \o add_chunk_result(polTask, kind)
    /\ polPc' = "fallback"
    /\ UNCHANGED <<polStart, polTask>>
    /\ UNCHANGED notPolVars

PolNext == PolRetry \/ PolFallback

\* ------------------------------------------------------------------------
\* Adaptive task scheduler: pipelines/pl_extract.py main, lines 106-255
\* ------------------------------------------------------------------------
\* Bounds of the runs explored.
MaxWindows == 3
MaxGroup == 3
MaxWorkers == 2

Windows == 1..nWin

\* The set of the members of a sequence.
Range(s) == {s[k] : k \in 1..Len(s)}

\* id_groups: chunk_ids cut into consecutive groups of group_size.
id_groups ==
    LET cnt == (nWin + group_size - 1) \div group_size
    IN [k \in 1..cnt |->
          [j \in 1..Min(group_size, nWin - (k - 1) * group_size) |->
              (k - 1) * group_size + j]]

\* What the oracle's response holds for one window of the task.
\*   "nomarker"   no START/END marker pair of that window: align yields ""
\*   "ungrounded" a marker pair, and no line of it passes sanitize_from_log
\*   "grounded"   a marker pair, and at least one line passes
WinKinds == {"nomarker", "ungrounded", "grounded"}

\* The validated lines of window g in a grounded response to task t.  Windows
\* overlap, so neighbours share a line; the fuller few-shot level returns more.
OracleLines(g, t) == IF t.fewshot_level = 2 THEN <<g, g + 1>> ELSE <<g + 1>>

\* futures[pool.submit(submit_and_collect, t)] = t: a worker starts on t.
Fut(t) == [task |-> t, st |-> "running", cause |-> "", status |-> "", kept |-> {}]

\* Mutant of Slots: the guard written len(futures) <= max_workers.
Slots_OneMore(fs, mw) == mw + 1 - Cardinality(fs)

\* Free places under the loop guard len(futures) < max_workers.
Slots(fs, mw) == mw - Cardinality(fs)

\* while workq and len(futures) < max_workers: submit_task(workq.pop())
FillFromRight(q, fs, mw) ==
    LET k == Min(Len(q), Max(Slots(fs, mw), 0))
    IN [q |-> SubSeq(q, 1, Len(q) - k),
        fs |-> fs \cup {Fut(q[j]) : j \in (Len(q) - k + 1)..Len(q)}]

\* while workq and len(futures) < max_workers: submit_task(workq.popleft())
FillFromLeft(q, fs, mw) ==
    LET k == Min(Len(q), Max(Slots(fs, mw), 0))
    IN [q |-> SubSeq(q, k + 1, Len(q)),
        fs |-> fs \cup {Fut(q[j]) : j \in 1..k}]

\* submit_and_collect after the call returned text in time: align, sanitize,
\* result_map and the status.
Collected(f, resp) ==
    LET kept == {g \in Range(f.task.gids) : resp[g] = "grounded"}
    IN [f EXCEPT !.st = "done",
                 !.cause = IF kept # {} THEN "grounded"
                           ELSE IF \A g \in Range(f.task.gids) : resp[g] = "nomarker"
                           THEN "nomarker" ELSE "ungrounded",
                 !.status = IF kept # {} THEN "ok" ELSE "empty",
                 !.kept = kept]

\* Mutant of StatusOf: fut.result() is not guarded, the worker's exception is
\* not turned into "bad".
StatusOf_Unguarded(f) == f.status

\* main, lines 203-207: the status of a finished future; an exception of the
\* worker becomes "bad".
StatusOf(f) == IF f.status = "exc" THEN "bad" ELSE f.status

\* chunk_segments[g].append(txt); done_gids.add(g) for each g of gseq whose
\* text is not empty; with markFail, fail_gids.add(g) for the others.
RECURSIVE Store(_, _, _, _)
Store(acc, gseq, texts, markFail) ==
    IF gseq = <<>> THEN acc
    ELSE LET g == Head(gseq)
             nxt == IF texts[g] # <<>>
                    THEN [acc EXCEPT
                            !.segs[g] = Append(@, texts[g]),
                            !.order = IF g \in Range(@) THEN @ ELSE Append(@, g),
                            !.done = @ \cup {g}]
                    ELSE IF markFail THEN [acc EXCEPT !.fail = @ \cup {g}]
                    ELSE acc
         IN Store(nxt, Tail(gseq), texts, markFail)

Collections ==
    [segs |-> chunk_segments, order |-> segOrder, done |-> done_gids,
     fail |-> fail_gids]

\* The keys of result_map in insertion order: the task's gids that kept lines.
RECURSIVE KeptSeq(_, _)
KeptSeq(gseq, kept) ==
    IF gseq = <<>> THEN <<>>
    ELSE (IF Head(gseq) \in kept THEN <<Head(gseq)>> ELSE <<>>)
         \o KeptSeq(Tail(gseq), kept)

\* The permutations of a finite set, as sequences.
RECURSIVE Perms(_)
Perms(S) ==
    IF S = {} THEN {<<>>}
    ELSE UNION {{<<x>> \o p : p \in Perms(S \ {x})} : x \in S}

\* The merge loop of main, lines 243-254, over the windows in the given
\* order: a line equal to the line before it is not emitted.
RECURSIVE MergeLinesOf(_, _)
MergeLinesOf(acc, lns) ==
    IF lns = <<>> THEN acc
    ELSE MergeLinesOf(
           [merged_lines |-> IF Head(lns) # acc.last_line
                             THEN Append(acc.merged_lines, Head(lns))
                             ELSE acc.merged_lines,
            last_line |-> Head(lns)],
           Tail(lns))

RECURSIVE MergeSegsOf(_, _)
MergeSegsOf(acc, segs) ==
    IF segs = <<>> THEN acc
    ELSE MergeSegsOf(MergeLinesOf(acc, Head(segs)), Tail(segs))

RECURSIVE MergeChunks(_, _, _)
MergeChunks(acc, order, segsOf) ==
    IF order = <<>> THEN acc
    ELSE MergeChunks(MergeSegsOf(acc, segsOf[Head(order)]), Tail(order), segsOf)

\* ordered_chunks = [gid#c1 .. gid#cN]: the windows by index.
ordered_chunks == [k \in 1..nWin |-> k]

Merged(order, segsOf) ==
    MergeChunks([merged_lines |-> <<>>, last_line |-> 0], order, segsOf).merged_lines

SchedIdle ==
    /\ nWin = 0 /\ group_size = 0 /\ max_workers = 0 /\ fbText = <<>>
    /\ workq = <<>> /\ futures = {} /\ done_gids = {} /\ fail_gids = {}
    /\ chunk_segments = <<>> /\ segOrder = <<>> /\ schedPc = "idle"
    /\ hist = {}
    /\ candidate_text = <<>>

\* main, lines 106-132: the windows, the groups and one depth-0 task per group.
SchedStart ==
    /\ nWin \in 1..MaxWindows
    /\ group_size \in 1..Min(MaxGroup, nWin)
    /\ max_workers \in 1..MaxWorkers
    /\ fbText \in [1..nWin -> {<<>>, <<0>>}]
    /\ workq = [k \in 1..Len(id_groups) |->
                  Task(id_groups[k], token_budget, max_lines, stride, 0, 2)]
    /\ futures = {}
    /\ done_gids = {} /\ fail_gids = {}
    /\ chunk_segments = [g \in 1..nWin |-> <<>>]
    /\ segOrder = <<>>
    /\ schedPc = "fill"
    /\ hist = {}
    /\ candidate_text = <<>>

\* The text rule_extract_fallback returns for window g: the lines found in the
\* window's own text (here the line the window starts with), or nothing.
FallbackLines == [g \in Windows |-> IF fbText[g] = <<>> THEN <<>> ELSE <<g>>]

schedConfig == <<nWin, group_size, max_workers, fbText>>

\* main, lines 198-199: the first fill of the pool, from the right end.
InitialFill ==
    /\ schedPc = "fill"
    /\ LET r == FillFromRight(workq, futures, max_workers)
       IN workq' = r.q /\ futures' = r.fs
    /\ schedPc' = "loop"
    /\ UNCHANGED <<schedConfig, done_gids, fail_gids, chunk_segments, segOrder,
                   hist, candidate_text>>
    /\ UNCHANGED notSchedVars

\* A worker: llm.chat returns text before the deadline.
CallReturns ==
    /\ schedPc = "loop"
    /\ \E f \in futures :
         /\ f.st = "running"
         /\ \E resp \in [Range(f.task.gids) -> WinKinds] :
              futures' = (futures \ {f}) \cup {Collected(f, resp)}
    /\ UNCHANGED <<schedConfig, workq, done_gids, fail_gids, chunk_segments,
                   segOrder, schedPc, hist, candidate_text>>
    /\ UNCHANGED notSchedVars

\* A worker: llm.chat raises before the deadline; the exception leaves
\* _run_with_timeout and submit_and_collect (it is no TimeoutError).
CallRaises ==
    /\ schedPc = "loop"
    /\ \E f \in futures :
         /\ f.st = "running"
         /\ futures' = (futures \ {f}) \cup
                {[f EXCEPT !.st = "done", !.cause = "raise", !.status = "exc"]}
    /\ UNCHANGED <<schedConfig, workq, done_gids, fail_gids, chunk_segments,
                   segOrder, schedPc, hist, candidate_text>>
    /\ UNCHANGED notSchedVars

\* _run_with_timeout: fut.result(timeout=timeout_s) gives up while the call
\* is still running.  Leaving the with block of the one-thread executor
\* (shutdown(wait=True)) then waits for the call.
DeadlineExpires ==
    /\ schedPc = "loop"
    /\ \E f \in futures :
         /\ f.st = "running"
         /\ futures' = (futures \ {f}) \cup {[f EXCEPT !.st = "expired"]}
    /\ UNCHANGED <<schedConfig, workq, done_gids, fail_gids, chunk_segments,
                   segOrder, schedPc, hist, candidate_text>>
    /\ UNCHANGED notSchedVars

\* The late call ends (returns or raises): the with block is left,
\* TimeoutError is raised and submit_and_collect returns "timeout".
CallEndsLate ==
    /\ schedPc = "loop"
    /\ \E f \in futures :
         /\ f.st = "expired"
         /\ futures' = (futures \ {f}) \cup
                {[f EXCEPT !.st = "done", !.cause = "late", !.status = "timeout"]}
    /\ UNCHANGED <<schedConfig, workq, done_gids, fail_gids, chunk_segments,
                   segOrder, schedPc, hist, candidate_text>>
    /\ UNCHANGED notSchedVars

\* Mutant of OkWindows: on ok every window of the task is stored and marked.
OkWindows_AllOfTask(task, result_map) == task.gids

\* for g, txt in result_map.items(): the windows an ok task marks done.
OkWindows(task, result_map) == KeptSeq(task.gids, result_map)

\* main, lines 201-230: one pass of the loop body on a finished future.
Complete ==
    /\ schedPc = "loop"
    /\ \E f \in futures :
         /\ f.st = "done"
         /\ LET st == StatusOf(f)
                task == f.task
                result_map == IF f.status = "exc" THEN {} ELSE f.kept
                new_tasks == schedule_adaptive(task)
                okTexts == [g \in Windows |-> OracleLines(g, task)]
                stored ==
                    IF st = "ok"
                    THEN Store(Collections, OkWindows(task, result_map),
                               okTexts, FALSE)
                    ELSE IF st \in {"empty", "timeout", "bad"} /\ new_tasks = <<>>
                    THEN Store(Collections, task.gids, FallbackLines, TRUE)
                    ELSE Collections
                q1 == IF st \in {"empty", "timeout", "bad"}
                      THEN new_tasks \o workq ELSE workq
                r == FillFromLeft(q1, futures \ {f}, max_workers)
            IN /\ workq' = r.q
               /\ futures' = r.fs
               /\ chunk_segments' = stored.segs
               /\ segOrder' = stored.order
               /\ done_gids' = stored.done
               /\ fail_gids' = stored.fail
               /\ hist' = hist \cup {[gids |-> task.gids, depth |-> task.depth,
                                      kept |-> result_map]}
    /\ UNCHANGED <<schedConfig, schedPc, candidate_text>>
    /\ UNCHANGED notSchedVars

\* main, line 200: while futures or workq is false.
LoopExit ==
    /\ schedPc = "loop"
    /\ futures = {} /\ workq = <<>>
    /\ schedPc' = "final"
    /\ UNCHANGED <<schedConfig, workq, futures, done_gids, fail_gids,
                   chunk_segments, segOrder, hist, candidate_text>>
    /\ UNCHANGED notSchedVars

\* Mutant of Remaining: the last pass skips the windows no step recorded.
Remaining_OnlyFailed == fail_gids \ done_gids

\* Mutant of Remaining: the last pass takes every window again.
Remaining_All == Windows

\* The windows the last pass hands to the fallback.
Remaining == Windows \ done_gids

\* main, lines 232-239: the last pass over the windows not done.  The order in
\* which list(remaining) enumerates the set is not fixed.
FinalPass ==
    /\ schedPc = "final"
    /\ \E order \in Perms(Remaining) :
         LET stored == Store(Collections, order, FallbackLines, TRUE)
         IN /\ chunk_segments' = stored.segs
            /\ segOrder' = stored.order
            /\ done_gids' = stored.done
            /\ fail_gids' = stored.fail
    /\ schedPc' = "merge"
    /\ UNCHANGED <<schedConfig, workq, futures, hist, candidate_text>>
    /\ UNCHANGED notSchedVars

\* Mutant of MergeOrder: the merge walks chunk_segments in its key order,
\* which is the order of completion.
MergeOrder_Completion == segOrder

\* The order in which the merge visits the windows.
MergeOrder == ordered_chunks

\* main, lines 243-254.
Merge ==
    /\ schedPc = "merge"
    /\ candidate_text' = Merged(MergeOrder, chunk_segments)
    /\ schedPc' = "done"
    /\ UNCHANGED <<schedConfig, workq, futures, done_gids, fail_gids,
                   chunk_segments, segOrder, hist>>
    /\ UNCHANGED notSchedVars

\* The steps of the main thread and of the watchdog.
SchedProgram == InitialFill \/ Complete \/ LoopExit \/ FinalPass \/ Merge
                  \/ DeadlineExpires
\* The steps that need the oracle's call to end.
SchedOracle == CallReturns \/ CallRaises \/ CallEndsLate

SchedNext == SchedProgram \/ SchedOracle

\* ------------------------------------------------------------------------
\* Canonical orderer: core/ordering.py
\* ------------------------------------------------------------------------
\* A text is the list of its lines (splitlines, "\r" stripped).  The lines are
\* taken from a catalog of kernel-log lines; each pattern of ordering.py is
\* the set of the catalog lines it matches.
MaxOrdLen == 3
\* max_scan of _find_ct_blocks_with_hoist.
MAX_SCAN == 400

OrdCatalog ==
    {"", "BUG: KASAN: uaf in f", "Read of size 8 at addr 0", "CPU: 0 comm: a",
     "CPU: 1", "Hardware name: q", "Hardware name: qemu", "Call Trace:",
     "<TASK>", "</TASK>", "f+0x1/0x2", "g+0x3/0x4", "[ 1.0] f+0x1/0x2",
     "Allocated by task 1:", "Freed by task 2:",
     "The buggy address belongs to x",
     "Memory state around the buggy address:", "page:0 refcount:1",
     "Kernel panic - not syncing", "RIP: 0010:f", "Code: 00 00", "RSP: 0018:0",
     "Kernel Offset: disabled", "Rebooting in 86400 seconds..", "note",
     "[ 1.0] note", "[ 3.0] note", "[ 1.0] [ 2.0] [ 3.0] note",
     "[ 1.0] Call Trace:", "h+0x5/0x6", "dump_stack+0x1/0x2", "note?",
     "note{U+FF1F}", "RSP: 0018:0 ?", "RIP:  0010:f", "CPU: 2"}

\* The lines the inputs are built from.
OrdAlphabet ==
    {"", "BUG: KASAN: uaf in f", "CPU: 0 comm: a", "CPU: 1", "CPU: 2",
     "Hardware name: q", "Hardware name: qemu", "Call Trace:",
     "<TASK>", "</TASK>", "f+0x1/0x2", "Allocated by task 1:", "RIP: 0010:f",
     "RSP: 0018:0", "Kernel panic - not syncing", "note", "[ 1.0] note"}

\* _normalize_for_match: timestamp prefix removed, white space collapsed.
normalize_for_match(s) ==
    CASE s = "[ 1.0] f+0x1/0x2" -> "f+0x1/0x2"
      [] s = "[ 1.0] note" -> "note"
      [] s = "[ 3.0] note" -> "note"
      [] s = "[ 1.0] [ 2.0] [ 3.0] note" -> "[ 3.0] note"
      [] s = "[ 1.0] Call Trace:" -> "Call Trace:"
      [] s = "RIP:  0010:f" -> "RIP: 0010:f"
      [] OTHER -> s

\* len(_normalize_for_match(s)) of the lines _pick_best scores.
NormLen(s) ==
    CASE s = "CPU: 0 comm: a" -> 14
      [] s = "CPU: 1" -> 6
      [] s = "CPU: 2" -> 6
      [] s = "Hardware name: q" -> 16
      [] s = "Hardware name: qemu" -> 19
      [] OTHER -> 0

IsBlank(s) == s = ""

R_BUG(s) == s = "BUG: KASAN: uaf in f"
R_RW(s) == s = "Read of size 8 at addr 0"
R_CPU(s) == s \in {"CPU: 0 comm: a", "CPU: 1", "CPU: 2"}
R_HW(s) == s \in {"Hardware name: q", "Hardware name: qemu"}
R_CT(s) == s = "Call Trace:"
R_T_OPEN(s) == s = "<TASK>"
R_T_END(s) == s = "</TASK>"
R_ALLOC(s) == s = "Allocated by task 1:"
R_FREED(s) == s = "Freed by task 2:"
R_BUGGY(s) == s = "The buggy address belongs to x"
R_MEM(s) == s = "Memory state around the buggy address:"
R_PAGE(s) == s = "page:0 refcount:1"
R_PANIC(s) == s = "Kernel panic - not syncing"
R_RIP(s) == s \in {"RIP: 0010:f", "RIP:  0010:f"}
R_CODE(s) == s = "Code: 00 00"
R_REGS(s) == s \in {"RSP: 0018:0", "RSP: 0018:0 ?"}
R_OFFS(s) == s = "Kernel Offset: disabled"
R_REBOOT(s) == s = "Rebooting in 86400 seconds.."

is_frame(s) ==
    normalize_for_match(s) \in
        {"f+0x1/0x2", "g+0x3/0x4", "h+0x5/0x6", "dump_stack+0x1/0x2"}

is_hard_break(s) ==
    \/ R_BUG(s) \/ R_RW(s) \/ R_CPU(s) \/ R_HW(s) \/ R_CT(s) \/ R_ALLOC(s)
    \/ R_FREED(s) \/ R_BUGGY(s) \/ R_MEM(s) \/ R_PAGE(s) \/ R_PANIC(s)
    \/ R_RIP(s) \/ R_CODE(s) \/ R_OFFS(s) \/ R_REBOOT(s) \/ R_T_OPEN(s)
    \/ R_T_END(s)

ORDER == <<"BUG", "RW", "CPU", "HW", "CALLTRACE", "ALLOC", "FREED", "BUGGY",
           "MEM", "PAGE", "RIPCODE", "REGS", "REBOOT", "_OTHER">>

\* _dedupe: the first line of each normalized form.
RECURSIVE DedupeFrom(_, _)
DedupeFrom(lns, seen) ==
    IF lns = <<>> THEN <<>>
    ELSE LET k == normalize_for_match(Head(lns))
         IN IF k \in seen THEN DedupeFrom(Tail(lns), seen)
            ELSE <<Head(lns)>> \o DedupeFrom(Tail(lns), seen \cup {k})

\* Mutant of dedupe: every line is kept.
dedupe_Off(lns) == lns

dedupe(lns) == DedupeFrom(lns, {})

score_cpu(s) == <<IF s \in {"CPU: 0 comm: a"} THEN 1 ELSE 0, NormLen(s)>>
score_hw(s) == <<0, NormLen(s)>>
\* Mutant of ScoreLess: an equal score counts as greater, so the last line of
\* the greatest score wins.
ScoreLess_OrEqual(a, b) == a[1] < b[1] \/ (a[1] = b[1] /\ a[2] <= b[2])

ScoreLess(a, b) == a[1] < b[1] \/ (a[1] = b[1] /\ a[2] < b[2])

\* max(lines, key=...): the first line of the greatest score.
RECURSIVE MaxBy(_, _, _)
MaxBy(best, lns, which) ==
    IF lns = <<>> THEN best
    ELSE LET sb == IF which = "CPU" THEN score_cpu(best) ELSE score_hw(best)
             sh == IF which = "CPU" THEN score_cpu(Head(lns))
                   ELSE score_hw(Head(lns))
         IN MaxBy(IF ScoreLess(sb, sh) THEN Head(lns) ELSE best, Tail(lns), which)

pick_best(lns, which) ==
    IF lns = <<>> THEN <<>>
    ELSE IF Len(lns) = 1 THEN <<lns[1]>>
    ELSE IF which \in {"CPU", "HW"} THEN <<MaxBy(Head(lns), Tail(lns), which)>>
    ELSE <<lns[1]>>

\* The frame loop of _find_ct_blocks_with_hoist: the first index from j on
\* that is no frame of the block.
RECURSIVE FramesEnd(_, _)
FramesEnd(lns, j) ==
    IF j > Len(lns) THEN j
    ELSE LET s == lns[j]
         IN IF IsBlank(s) THEN j
            ELSE IF R_ALLOC(s) \/ R_FREED(s) \/ R_BUGGY(s) \/ R_MEM(s)
                    \/ R_PAGE(s) \/ R_PANIC(s) \/ R_OFFS(s) \/ R_REBOOT(s) THEN j
            ELSE IF is_frame(s) THEN FramesEnd(lns, j + 1)
            ELSE j

RECURSIVE RegsEnd(_, _)
RegsEnd(lns, j) ==
    IF j <= Len(lns) /\ R_REGS(lns[j]) THEN RegsEnd(lns, j + 1) ELSE j

\* _collect_regs_tail: the index after the RIP / Code: / registers run at j.
collect_regs_tail(lns, j) ==
    IF j <= Len(lns) /\ R_RIP(lns[j])
    THEN LET j1 == j + 1
             j2 == IF j1 <= Len(lns) /\ R_CODE(lns[j1]) THEN j1 + 1 ELSE j1
         IN RegsEnd(lns, j2)
    ELSE j

\* The hoist scan: the index of the first </TASK> in k..upto that no other
\* "Call Trace:" precedes, or 0.
RECURSIVE HoistScan(_, _, _)
HoistScan(lns, k, upto) ==
    IF k > upto THEN 0
    ELSE IF R_T_END(lns[k]) THEN k
    ELSE IF R_CT(lns[k]) THEN 0
    ELSE HoistScan(lns, k + 1, upto)

\* _find_ct_blocks_with_hoist: the emit lists (line indices) of the blocks.
RECURSIVE FindCtBlocks(_, _, _)
FindCtBlocks(lns, i, blocks) ==
    IF i > Len(lns) THEN blocks
    ELSE IF ~R_CT(lns[i]) THEN FindCtBlocks(lns, i + 1, blocks)
    ELSE LET j0 == i + 1
             j1 == IF j0 <= Len(lns) /\ R_T_OPEN(lns[j0]) THEN j0 + 1 ELSE j0
             j2 == FramesEnd(lns, j1)
             j3 == collect_regs_tail(lns, j2)
             end_pos == HoistScan(lns, j3, Min(Len(lns), i + MAX_SCAN))
             emit == [k \in 1..(j3 - i) |-> i + k - 1]
                       \o (IF end_pos # 0 THEN <<end_pos>> ELSE <<>>)
         IN FindCtBlocks(lns, j3 + 1, Append(blocks, emit))

find_ct_blocks_with_hoist(lns) == FindCtBlocks(lns, 1, <<>>)

\* The CALLTRACE bucket: the blocks' lines, one "" between two blocks.
RECURSIVE PlaceCalltrace(_, _, _)
PlaceCalltrace(lns, blocks, acc) ==
    IF blocks = <<>> THEN acc
    ELSE LET sep == IF acc # <<>> /\ Last(acc) # "" THEN <<"">> ELSE <<>>
             blk == [k \in 1..Len(Head(blocks)) |-> lns[Head(blocks)[k]]]
         IN PlaceCalltrace(lns, Tail(blocks), acc \o sep \o blk)

\* collect_block: the index after the block that starts at start.
RECURSIVE BlockEnd(_, _, _)
BlockEnd(lns, start, j) ==
    IF j > Len(lns) THEN j
    ELSE IF j # start /\ is_hard_break(lns[j]) THEN j
    ELSE BlockEnd(lns, start, j + 1)

IsRipOrCode(s) == R_RIP(s) \/ R_CODE(s)

\* The bucket loop of order_normalize, from line i on.
RECURSIVE Bucketize(_, _, _, _)
Bucketize(lns, used, i, b) ==
    IF i > Len(lns) THEN b
    ELSE IF i \in used \/ IsBlank(lns[i]) THEN Bucketize(lns, used, i + 1, b)
    ELSE LET s == lns[i]
             j == BlockEnd(lns, i, i)
             blk == SubSeq(lns, i, j - 1)
         IN IF R_BUG(s)
            THEN Bucketize(lns, used, i + 1, [b EXCEPT !["BUG"] = Append(@, s)])
            ELSE IF R_RW(s)
            THEN Bucketize(lns, used, i + 1, [b EXCEPT !["RW"] = Append(@, s)])
            ELSE IF R_CPU(s)
            THEN Bucketize(lns, used, i + 1, [b EXCEPT !["CPU"] = Append(@, s)])
            ELSE IF R_HW(s)
            THEN Bucketize(lns, used, i + 1, [b EXCEPT !["HW"] = Append(@, s)])
            ELSE IF R_ALLOC(s)
            THEN Bucketize(lns, used, j, [b EXCEPT !["ALLOC"] = @ \o blk])
            ELSE IF R_FREED(s)
            THEN Bucketize(lns, used, j, [b EXCEPT !["FREED"] = @ \o blk])
            ELSE IF R_BUGGY(s)
            THEN Bucketize(lns, used, j, [b EXCEPT !["BUGGY"] = @ \o blk])
            ELSE IF R_MEM(s)
            THEN Bucketize(lns, used, j, [b EXCEPT !["MEM"] = @ \o blk])
            ELSE IF R_PAGE(s)
            THEN Bucketize(lns, used, j, [b EXCEPT !["PAGE"] = @ \o blk])
            ELSE IF R_RIP(s) \/ R_CODE(s) \/ R_REGS(s)
            THEN Bucketize(lns, used, j,
                   [b EXCEPT !["RIPCODE"] = @ \o SelectSeq(blk, IsRipOrCode),
                             !["REGS"] = @ \o SelectSeq(blk, R_REGS)])
            ELSE IF R_REBOOT(s)
            THEN Bucketize(lns, used, i + 1, [b EXCEPT !["REBOOT"] = Append(@, s)])
            ELSE IF is_frame(s)
            THEN Bucketize(lns, used, i + 1, b)
            ELSE Bucketize(lns, used, i + 1, [b EXCEPT !["_OTHER"] = Append(@, s)])

NotBlank(s) == ~IsBlank(s)

\* The emit loop: the buckets in the order of `order`; each line goes out
\* with the name of its bucket, a separating "" with no name.
RECURSIVE EmitBuckets(_, _, _)
EmitBuckets(order, b, out) ==
    IF order = <<>> THEN out
    ELSE LET key == Head(order)
             arr == b[key]
             sel == IF key \in {"CPU", "HW"} THEN pick_best(arr, key) ELSE arr
             lns == dedupe(SelectSeq(sel, NotBlank))
             sep == IF out # <<>> /\ Last(out).ln # ""
                    THEN <<[lab |-> "", ln |-> ""]>> ELSE <<>>
         IN IF arr = <<>> \/ lns = <<>> THEN EmitBuckets(Tail(order), b, out)
            ELSE EmitBuckets(Tail(order), b,
                   out \o sep \o [k \in 1..Len(lns) |-> [lab |-> key, ln |-> lns[k]]])

\* Final tidy: <TASK> and </TASK> are dropped unless a "Call Trace:" is open.
RECURSIVE FinalTidy(_, _)
FinalTidy(out, in_ct) ==
    IF out = <<>> THEN <<>>
    ELSE LET e == Head(out)
         IN IF R_CT(e.ln) THEN <<e>> \o FinalTidy(Tail(out), TRUE)
            ELSE IF in_ct
            THEN <<e>> \o FinalTidy(Tail(out), ~R_T_END(e.ln))
            ELSE IF R_T_OPEN(e.ln) \/ R_T_END(e.ln) THEN FinalTidy(Tail(out), FALSE)
            ELSE <<e>> \o FinalTidy(Tail(out), FALSE)

\* Blank runs collapsed to one, none kept at the start.
RECURSIVE CompressBlanks(_, _, _)
CompressBlanks(final, cleaned, prev_blank) ==
    IF final = <<>> THEN cleaned
    ELSE LET e == Head(final)
         IN IF ~IsBlank(e.ln)
            THEN CompressBlanks(Tail(final), Append(cleaned, e), FALSE)
            ELSE CompressBlanks(Tail(final),
                   IF ~prev_blank /\ cleaned # <<>>
                   THEN Append(cleaned, [lab |-> "", ln |-> ""]) ELSE cleaned,
                   TRUE)

RECURSIVE TrimBlanks(_)
TrimBlanks(cleaned) ==
    IF cleaned # <<>> /\ cleaned[1].ln = "" THEN TrimBlanks(Tail(cleaned))
    ELSE IF cleaned # <<>> /\ Last(cleaned).ln = ""
    THEN TrimBlanks(SubSeq(cleaned, 1, Len(cleaned) - 1))
    ELSE cleaned

\* Mutant of EmitOrder: the call trace emitted after the KASAN detail blocks.
EmitOrder_TraceLate ==
    <<"BUG", "RW", "CPU", "HW", "ALLOC", "FREED", "BUGGY", "MEM", "PAGE",
      "CALLTRACE", "RIPCODE", "REGS", "REBOOT", "_OTHER">>

\* The order in which the buckets are emitted.
EmitOrder == ORDER

\* order_normalize on the lines of a text: the lines of the result, each
\* with the bucket it was emitted under.
order_normalize(lns) ==
    IF lns = <<>> THEN <<>>
    ELSE LET ct_blocks == find_ct_blocks_with_hoist(lns)
             used == UNION {Range(ct_blocks[k]) : k \in 1..Len(ct_blocks)}
             b0 == [k \in Range(ORDER) |->
                      IF k = "CALLTRACE" THEN PlaceCalltrace(lns, ct_blocks, <<>>)
                      ELSE <<>>]
             b == Bucketize(lns, used, 1, b0)
             out == EmitBuckets(EmitOrder, b, <<>>)
         IN TrimBlanks(CompressBlanks(FinalTidy(out, FALSE), <<>>, FALSE))

\* The text of a result: its lines without the bucket names.
LinesOf(out) == [k \in 1..Len(out) |-> out[k].ln]

\* All sequences over S of length at most n.
RECURSIVE SeqsUpTo(_, _)
SeqsUpTo(S, n) ==
    IF n = 0 THEN {<<>>}
    ELSE LET P == SeqsUpTo(S, n - 1)
         IN P \cup {Append(p, x) : p \in {q \in P : Len(q) = n - 1}, x \in S}

OrdIdle == ordIn = <<>> /\ ordOut = <<>> /\ ordOut2 = <<>> /\ ordPc = "idle"

OrdStart ==
    /\ ordIn \in SeqsUpTo(OrdAlphabet, MaxOrdLen)
    /\ ordOut = <<>> /\ ordOut2 = <<>>
    /\ ordPc = "in"

\* candidate_text = order_normalize(candidate_text)
OrderOnce ==
    /\ ordPc = "in"
    /\ ordOut' = order_normalize(ordIn)
    /\ ordPc' = "once"
    /\ UNCHANGED <<ordIn, ordOut2>>
    /\ UNCHANGED notOrdVars

\* order_normalize run again on the text it returned.
OrderTwice ==
    /\ ordPc = "once"
    /\ ordOut2' = order_normalize(LinesOf(ordOut))
    /\ ordPc' = "twice"
    /\ UNCHANGED <<ordIn, ordOut>>
    /\ UNCHANGED notOrdVars

OrdNext == OrderOnce \/ OrderTwice

\* ------------------------------------------------------------------------
\* Grounding of window results: core/sanitize.py, core/fallback.py and the
\* places of pipelines/pl_extract.py that store a segment
\* ------------------------------------------------------------------------
\* A text is the sequence of its characters.  The texts of the model have no
\* "\r" and no line boundary other than "\n".
MaxOut == 4
MaxStored == 2
\* The repetition bounds of the two patterns of rule_extract_fallback.
MAX_REP_ANY == 200
MAX_REP_TRACE == 120

NL == "\n"
IsWs(c) == c \in {" ", NL}

\* str.splitlines
RECURSIVE SplitOnNL(_)
SplitOnNL(t) ==
    IF t = <<>> THEN << <<>> >>
    ELSE LET rest == SplitOnNL(Tail(t))
         IN IF Head(t) = NL THEN << <<>> >> \o rest
            ELSE << <<Head(t)>> \o rest[1] >> \o Tail(rest)

splitlines(t) ==
    LET p == SplitOnNL(t)
    IN IF Last(p) = <<>> THEN SubSeq(p, 1, Len(p) - 1) ELSE p

\* "\n".join
RECURSIVE JoinNL(_)
JoinNL(lns) ==
    IF lns = <<>> THEN <<>>
    ELSE IF Len(lns) = 1 THEN lns[1]
    ELSE lns[1] \o <<NL>> \o JoinNL(Tail(lns))

\* str.strip("\n")
RECURSIVE StripNL(_)
StripNL(t) ==
    IF t # <<>> /\ Head(t) = NL THEN StripNL(Tail(t))
    ELSE IF t # <<>> /\ Last(t) = NL THEN StripNL(SubSeq(t, 1, Len(t) - 1))
    ELSE t

\* str.rstrip("\r\n")
RECURSIVE RStripNL(_)
RStripNL(t) ==
    IF t # <<>> /\ Last(t) = NL THEN RStripNL(SubSeq(t, 1, Len(t) - 1)) ELSE t

\* str.strip()
RECURSIVE StripWs(_)
StripWs(t) ==
    IF t # <<>> /\ IsWs(Head(t)) THEN StripWs(Tail(t))
    ELSE IF t # <<>> /\ IsWs(Last(t)) THEN StripWs(SubSeq(t, 1, Len(t) - 1))
    ELSE t

\* \s* from index i: the index after the run.
RECURSIVE SkipWs(_, _)
SkipWs(t, i) == IF i <= Len(t) /\ IsWs(t[i]) THEN SkipWs(t, i + 1) ELSE i

\* The first index from i on that holds c, or 0.
RECURSIVE FirstIdx(_, _, _)
FirstIdx(t, c, i) ==
    IF i > Len(t) THEN 0
    ELSE IF t[i] = c THEN i
    ELSE FirstIdx(t, c, i + 1)

\* One group  \[[^\]]+\]\s*  of _TS_PREFIX at index i: the index after it,
\* or 0 when it does not match.
TsGroup(t, i) ==
    IF i <= Len(t) /\ t[i] = "["
    THEN LET c == FirstIdx(t, "]", i + 1)
         IN IF c = 0 \/ c = i + 1 THEN 0 ELSE SkipWs(t, c + 1)
    ELSE 0

\* _TS_PREFIX = ^\s*(\[[^\]]+\]\s*){1,2} : the index after the prefix, 1
\* when the line has none.
TsPrefixEnd(t) ==
    LET g1 == TsGroup(t, SkipWs(t, 1))
    IN IF g1 = 0 THEN 1
       ELSE LET g2 == TsGroup(t, g1) IN IF g2 = 0 THEN g1 ELSE g2

\* _WS_MULTI.sub(" ", s)
RECURSIVE CollapseWs(_)
CollapseWs(t) ==
    IF t = <<>> THEN <<>>
    ELSE IF IsWs(Head(t))
    THEN <<" ">> \o CollapseWs(SubSeq(t, SkipWs(t, 1), Len(t)))
    ELSE <<Head(t)>> \o CollapseWs(Tail(t))

normalize_line(s) ==
    StripWs(CollapseWs(RStripNL(SubSeq(s, TsPrefixEnd(s), Len(s)))))

normalize_text_block(t) ==
    LET lns == splitlines(t)
    IN JoinNL([k \in 1..Len(lns) |-> normalize_line(lns[k])])

\* a in b, for two texts
IsSub(a, b) ==
    \E i \in 0..(Len(b) - Len(a)) : SubSeq(b, i + 1, i + Len(a)) = a

\* Mutant of sanitize_from_log: validation switched off, every line returned.
sanitize_from_log_Unchecked(extracted, whole_log_text) ==
    splitlines(extracted)

\* sanitize_from_log: the lines of extracted that are kept.
sanitize_from_log(extracted, whole_log_text) ==
    IF extracted = <<>> THEN <<>>
    ELSE LET norm_whole == normalize_text_block(whole_log_text)
             Keep(s) ==
                 /\ s # <<>>
                 /\ \/ IsSub(s, whole_log_text)
                    \/ LET ns == normalize_line(s)
                       IN ns # <<>> /\ IsSub(ns, norm_whole)
         IN SelectSeq(splitlines(extracted), Keep)

\* The literals of the two patterns of rule_extract_fallback.
LIT_BUG == <<"B", "U", "G", ":">>
LIT_KASAN == <<"K", "A", "S", "A", "N">>
LIT_MEM == <<"M", "e", "m", "o", "r", "y", " ", "s", "t", "a", "t", "e",
             " ", "a", "r", "o", "u", "n", "d">>
LIT_CT == <<"C", "a", "l", "l", " ", "T", "r", "a", "c", "e", ":", "\n">>

\* The literal lit stands in t at index i.
MatchAt(t, i, lit) ==
    /\ i + Len(lit) - 1 <= Len(t)
    /\ SubSeq(t, i, i + Len(lit) - 1) = lit

\* [^\n]*\n from index i: the index of the "\n", or 0 when the text ends first.
LineEnd(t, i) == FirstIdx(t, NL, i)

\* (?:.*\n){0,k} (greedy) from index p: the index after the last line taken.
RECURSIVE FullLines(_, _, _)
FullLines(t, p, k) ==
    IF k = 0 THEN p
    ELSE LET e == LineEnd(t, p)
         IN IF e = 0 THEN p ELSE FullLines(t, e + 1, k - 1)

\* (?:.+\n){0,k} (greedy) from index p: the index after the last line taken.
RECURSIVE NonEmptyLines(_, _, _)
NonEmptyLines(t, p, k) ==
    IF k = 0 THEN p
    ELSE LET e == LineEnd(t, p)
         IN IF e = 0 \/ e = p THEN p ELSE NonEmptyLines(t, e + 1, k - 1)

\* BUG:\s*KASAN[^\n]*\n at index i: the index after the "\n", or 0.
KasanHead(t, i) ==
    IF MatchAt(t, i, LIT_BUG)
    THEN LET j == SkipWs(t, i + Len(LIT_BUG))
         IN IF MatchAt(t, j, LIT_KASAN)
            THEN LET e == LineEnd(t, j + Len(LIT_KASAN))
                 IN IF e = 0 THEN 0 ELSE e + 1
            ELSE 0
    ELSE 0

\* The first pattern matched at index i: the index after the match, or 0.
\* The lazy (?:.*\n){0,200}? takes no line, since the group after it is
\* optional; that group takes the "Memory state around" line that follows
\* at once, and every complete line after it.
KasanMatch(t, i) ==
    LET h == KasanHead(t, i)
    IN IF h = 0 THEN 0
       ELSE IF MatchAt(t, h, LIT_MEM) /\ LineEnd(t, h + Len(LIT_MEM)) # 0
       THEN FullLines(t, LineEnd(t, h + Len(LIT_MEM)) + 1, MAX_REP_ANY)
       ELSE h

\* The second pattern matched at index i: the index after the match, or 0.
TraceMatch(t, i) ==
    IF MatchAt(t, i, LIT_CT)
    THEN LET b == i + Len(LIT_CT)
             e == NonEmptyLines(t, b, MAX_REP_TRACE)
         IN IF e = b THEN 0 ELSE e
    ELSE 0

\* re.search: the text of the leftmost match of the first pattern, else of
\* the second, each with its outer "\n" stripped; "" when neither matches.
rule_extract_fallback(s) ==
    LET kas == {i \in 1..Len(s) : KasanMatch(s, i) # 0}
        trc == {i \in 1..Len(s) : TraceMatch(s, i) # 0}
        Least(S) == CHOOSE i \in S : \A k \in S : i <= k
    IN IF kas # {}
       THEN StripNL(SubSeq(s, Least(kas), KasanMatch(s, Least(kas)) - 1))
       ELSE IF trc # {}
       THEN StripNL(SubSeq(s, Least(trc), TraceMatch(s, Least(trc)) - 1))
       ELSE <<>>

\* The logs of the model.
SanLogs ==
    {<<>>,
     <<"b">>,
     <<"[", "a", "]", " ", "b">>,
     <<"a", " ", " ", "b">>,
     <<"[", "a", "]", "[", "b", "]", " ", "a", " ", "b", "\n", "C", "a",
       "l", "l", " ", "T", "r", "a", "c", "e", ":", "\n">>,
     <<"B", "U", "G", ":", " ", "K", "A", "S", "A", "N">>,
     <<"B", "U", "G", ":", " ", "K", "A", "S", "A", "N", "\n", "b", "\n",
       "a">>,
     <<"B", "U", "G", ":", " ", "K", "A", "S", "A", "N", " ", "b", "\n",
       "M", "e", "m", "o", "r", "y", " ", "s", "t", "a", "t", "e", " ",
       "a", "r", "o", "u", "n", "d", "\n", " ", "a", "\n", "b">>,
     <<"[", "a", "]", " ", "B", "U", "G", ":", " ", " ", "K", "A", "S",
       "A", "N", "\n", "\n", "b">>,
     <<"a", "\n", "C", "a", "l", "l", " ", "T", "r", "a", "c", "e", ":",
       "\n", "b", "\n", "\n", "a">>,
     <<"[", "a", "]", " ", "C", "a", "l", "l", " ", "T", "r", "a", "c",
       "e", ":", "\n", "[", "a", "]", " ", "b", "\n", "[", "a", "]", " ",
       " ", "a", "\n", "b">>}

\* The characters of the oracle's answers.
OracleChars == {NL, " ", "[", "]", "a", "b"}

\* gid2text[gid] = "\n".join(lines[s:e])
gid2text(s, e) == JoinNL(SubSeq(splitlines(logtxt), s + 1, e))

SanIdle == logtxt = <<>> /\ sanSegs = <<>> /\ sanPc = "idle"

SanStart ==
    /\ logtxt \in SanLogs
    /\ sanSegs = <<>>
    /\ sanPc = "run"

\* A call returns: the part of the answer that align_answer_to_chunks found
\* for a window is sanitized, and the kept lines, if any, are stored.
CollectWindow ==
    /\ sanPc = "run"
    /\ Len(sanSegs) < MaxStored
    /\ \E out_text \in SeqsUpTo(OracleChars, MaxOut) :
          LET seg == StripNL(out_text)
              kept == sanitize_from_log(seg, logtxt)
          IN sanSegs' = IF kept # <<>>
                        THEN Append(sanSegs, [by |-> "oracle", seg |-> JoinNL(kept)])
                        ELSE sanSegs
    /\ UNCHANGED <<logtxt, sanPc>>
    /\ UNCHANGED notSanVars

\* A window falls back to the rules: its text is searched, and a match is
\* stored as it is.
FallbackWindow ==
    /\ sanPc = "run"
    /\ Len(sanSegs) < MaxStored
    /\ \E e \in 1..Len(splitlines(logtxt)) : \E s \in 0..(e - 1) :
          LET txt == rule_extract_fallback(gid2text(s, e))
          IN sanSegs' = IF txt # <<>>
                        THEN Append(sanSegs, [by |-> "fallback", seg |-> txt])
                        ELSE sanSegs
    /\ UNCHANGED <<logtxt, sanPc>>
    /\ UNCHANGED notSanVars

SanNext == CollectWindow \/ FallbackWindow

\* ------------------------------------------------------------------------
\* One task of one window: submit_and_collect and the branch of the loop
\* ------------------------------------------------------------------------
NoRes == [status |-> "", kept |-> <<>>]

ColIdle ==
    /\ colLog = <<>> /\ colTask = NoTask /\ colSeg = <<>> /\ colRes = NoRes
    /\ colNext = "" /\ colPc = "idle"

\* A task of one window (group_size 1), fresh or at the last depth.
ColStart ==
    /\ colLog \in SanLogs
    /\ \E d \in {0, SHRINK_MAX_DEPTH} :
          colTask = Task(<<1>>, token_budget, max_lines, stride, d, 2)
    /\ colSeg = <<>> /\ colRes = NoRes /\ colNext = ""
    /\ colPc = "call"

\* Mutant of TaskStatus: one dropped line makes the task empty.
TaskStatus_Strict(lns, kept) == IF kept # <<>> /\ kept = lns THEN "ok" ELSE "empty"

\* return ("ok" if kept_any else "empty"), for the lines of the part and the
\* lines kept of it.
TaskStatus(lns, kept) == IF kept # <<>> THEN "ok" ELSE "empty"

\* submit_and_collect, lines 178-193, after the call returned in time.
ColCollect ==
    /\ colPc = "call"
    /\ \E out_text \in SeqsUpTo(OracleChars, MaxOut) :
          LET seg == StripNL(out_text)
              kept == sanitize_from_log(seg, colLog)
          IN /\ colSeg' = seg
             /\ colRes' = [status |-> TaskStatus(splitlines(seg), kept),
                           kept |-> kept]
    /\ colPc' = "collected"
    /\ UNCHANGED <<colLog, colTask, colNext>>
    /\ UNCHANGED notColVars

\* main, lines 208-224: ok stores the segment; empty asks schedule_adaptive
\* and goes to the fallback when it has no child.
ColHandle ==
    /\ colPc = "collected"
    /\ colNext' = IF colRes.status = "ok" THEN "done"
                  ELSE IF schedule_adaptive(colTask) # <<>> THEN "retry"
                  ELSE "fallback"
    /\ colPc' = "handled"
    /\ UNCHANGED <<colLog, colTask, colSeg, colRes>>
    /\ UNCHANGED notColVars

ColNext == ColCollect \/ ColHandle

\* ------------------------------------------------------------------------
\* Post-processing of the merged candidate: core/sections.py,
\* core/augment.py, core/policy.py and main, lines 256-301
\* ------------------------------------------------------------------------
\* Bounds of the candidates explored.
MaxCand == 3
MaxTraceCap == 2

\* The lines logs and candidates are built from.  "{U+FF1F}" stands for the
\* full-width question mark.
PostCatalog ==
    {"", "BUG: KASAN: uaf in f", "Call Trace:", "[ 1.0] Call Trace:",
     "f+0x1/0x2", "g+0x3/0x4", "h+0x5/0x6", "dump_stack+0x1/0x2",
     "[ 1.0] note", "note", "note?", "note{U+FF1F}", "Allocated by task 1:",
     "RIP: 0010:f", "RIP:  0010:f", "RSP: 0018:0 ?",
     "[ 1.0] [ 2.0] [ 3.0] note", "[ 3.0] note"}

\* The characters of a line.
Chars(s) ==
    CASE s = "" -> <<>>
      [] s = "BUG: KASAN: uaf in f" ->
          <<"B", "U", "G", ":", " ", "K", "A", "S", "A", "N", ":", " ", "u",
            "a", "f", " ", "i", "n", " ", "f">>
      [] s = "Call Trace:" ->
          <<"C", "a", "l", "l", " ", "T", "r", "a", "c", "e", ":">>
      [] s = "[ 1.0] Call Trace:" ->
          <<"[", " ", "1", ".", "0", "]", " ", "C", "a", "l", "l", " ", "T",
            "r", "a", "c", "e", ":">>
      [] s = "f+0x1/0x2" -> <<"f", "+", "0", "x", "1", "/", "0", "x", "2">>
      [] s = "g+0x3/0x4" -> <<"g", "+", "0", "x", "3", "/", "0", "x", "4">>
      [] s = "h+0x5/0x6" -> <<"h", "+", "0", "x", "5", "/", "0", "x", "6">>
      [] s = "dump_stack+0x1/0x2" ->
          <<"d", "u", "m", "p", "_", "s", "t", "a", "c", "k", "+", "0", "x",
            "1", "/", "0", "x", "2">>
      [] s = "[ 1.0] note" ->
          <<"[", " ", "1", ".", "0", "]", " ", "n", "o", "t", "e">>
      [] s = "note" -> <<"n", "o", "t", "e">>
      [] s = "note?" -> <<"n", "o", "t", "e", "?">>
      [] s = "note{U+FF1F}" -> <<"n", "o", "t", "e", "U+FF1F">>
      [] s = "Allocated by task 1:" ->
          <<"A", "l", "l", "o", "c", "a", "t", "e", "d", " ", "b", "y", " ",
            "t", "a", "s", "k", " ", "1", ":">>
      [] s = "RIP: 0010:f" ->
          <<"R", "I", "P", ":", " ", "0", "0", "1", "0", ":", "f">>
      [] s = "RIP:  0010:f" ->
          <<"R", "I", "P", ":", " ", " ", "0", "0", "1", "0", ":", "f">>
      [] s = "RSP: 0018:0 ?" ->
          <<"R", "S", "P", ":", " ", "0", "0", "1", "8", ":", "0", " ", "?">>
      [] s = "[ 1.0] [ 2.0] [ 3.0] note" ->
          <<"[", " ", "1", ".", "0", "]", " ", "[", " ", "2", ".", "0", "]",
            " ", "[", " ", "3", ".", "0", "]", " ", "n", "o", "t", "e">>
      [] s = "[ 3.0] note" ->
          <<"[", " ", "3", ".", "0", "]", " ", "n", "o", "t", "e">>

\* The line with the given characters.
Str(cs) == CHOOSE s \in PostCatalog : Chars(s) = cs

\* '?' in s or the full-width question mark in s
HasQuestionMark(cs) == "?" \in Range(cs) \/ "U+FF1F" \in Range(cs)

\* The name of the SECTION_SPECS pattern that finds the line, "" for none
\* (no line of the catalog is found by two).
SectionOf(s) ==
    CASE s = "BUG: KASAN: uaf in f" -> "BUG"
      [] s = "Call Trace:" -> "CALL"
      [] s = "Allocated by task 1:" -> "ALLOC"
      [] OTHER -> ""

SECTION_NAMES ==
    <<"BUG", "RW", "CPU", "HW", "CALL", "ALLOC", "FREED", "BUGGY", "MEM">>

\* _HEX_DUMP.match(ln): no line of the catalog is a hex dump.
HEX_DUMP(s) == s \in {}

\* The line is found by one of DIAG_PATTERNS.
DiagMatch(s) == s \in {"RIP: 0010:f", "RIP:  0010:f", "RSP: 0018:0 ?"}

\* The first key k of SECTION_ORDER whose _RX[k] finds the normalized line n,
\* "" for none.
RxKey(n) ==
    CASE n = "BUG: KASAN: uaf in f" -> "BUG"
      [] n = "Call Trace:" -> "CALL"
      [] n = "Allocated by task 1:" -> "ALLOC"
      [] n \in {"RIP: 0010:f", "RSP: 0018:0 ?"} -> "DIAG"
      [] OTHER -> ""

SECTION_ORDER ==
    <<"BUG", "RW", "CPU", "HW", "CALL", "ALLOC", "FREED", "BUGGY", "MEM",
      "DIAG">>

\* str.splitlines on "\n".join(lns): a last empty line is not a line.
Resplit(lns) ==
    IF lns # <<>> /\ Last(lns) = "" THEN SubSeq(lns, 1, Len(lns) - 1) ELSE lns

\* ln.strip() is not empty
NonBlankLine(s) == StripWs(Chars(s)) # <<>>

\* sections._collect_block_from with the stop headers of the section name:
\* the lines from index i up to the line before the next header of another
\* section, at most max_len of them.
RECURSIVE collect_block_from(_, _, _, _, _)
collect_block_from(lines, i, max_len, name, out) ==
    IF i > Len(lines) \/ Len(out) >= max_len THEN out
    ELSE LET out2 == Append(out, lines[i])
         IN IF /\ ~HEX_DUMP(lines[i])
               /\ i + 1 <= Len(lines)
               /\ SectionOf(lines[i + 1]) \notin {"", name}
            THEN out2
            ELSE collect_block_from(lines, i + 1, max_len, name, out2)

\* The index of the first line of the section name, 0 when the log has none.
FirstHeader(lines, name) ==
    IF \E i \in 1..Len(lines) : SectionOf(lines[i]) = name
    THEN CHOOSE i \in 1..Len(lines) :
             /\ SectionOf(lines[i]) = name
             /\ \A j \in 1..(i - 1) : SectionOf(lines[j]) # name
    ELSE 0

\* extract_sections_from_log: the block of the first header of each section
\* the log has.
extract_sections_from_log(lines) ==
    [name \in {n \in Range(SECTION_NAMES) : FirstHeader(lines, n) > 0} |->
        collect_block_from(lines, FirstHeader(lines, name),
            IF name = "CALL" THEN 200
            ELSE IF name \in {"MEM", "ALLOC", "FREED", "BUGGY"} THEN 300
            ELSE 120,
            name, <<>>)]

\* The sections augment_missing_sections restores, in the order of needs.
NEEDS == <<"CALL", "ALLOC", "FREED", "BUGGY", "MEM">>

\* The header pattern of needs[key] finds the normalized line n.
NeedsMatch(key, n) ==
    \/ key = "CALL" /\ n = "Call Trace:"
    \/ key = "ALLOC" /\ n = "Allocated by task 1:"

\* _present
Present(key, cand_lines) ==
    \E k \in 1..Len(cand_lines) :
        NeedsMatch(key, normalize_for_match(cand_lines[k]))

\* The loop of augment_missing_sections over needs, from its k-th key.
RECURSIVE AugmentFrom(_, _, _)
AugmentFrom(k, log_secs, cand_lines) ==
    IF k > Len(NEEDS) THEN cand_lines
    ELSE LET key == NEEDS[k]
         IN IF key \in DOMAIN log_secs /\ ~Present(key, cand_lines)
            THEN LET sep == IF cand_lines # <<>> /\ NonBlankLine(Last(cand_lines))
                            THEN Append(cand_lines, "")
                            ELSE cand_lines
                     Add(ln) == NonBlankLine(ln) /\ ~HasQuestionMark(Chars(ln))
                 IN AugmentFrom(k + 1, log_secs,
                                sep \o SelectSeq(log_secs[key], Add))
            ELSE AugmentFrom(k + 1, log_secs, cand_lines)

\* Mutant of augment_missing_sections: the header of a call trace is added
\* when neither the candidate nor the log has one.
augment_missing_sections_Header(all_lines_in_log, cand) ==
    LET cand_lines == SelectSeq(Resplit(cand), NonBlankLine)
        log_secs == extract_sections_from_log(all_lines_in_log)
    IN IF "CALL" \notin DOMAIN log_secs /\ ~Present("CALL", cand_lines)
       THEN AugmentFrom(1, log_secs, Append(cand_lines, "Call Trace:"))
       ELSE AugmentFrom(1, log_secs, cand_lines)

\* augment_missing_sections: the lines of the text it returns.
augment_missing_sections(all_lines_in_log, cand) ==
    LET cand_lines == SelectSeq(Resplit(cand), NonBlankLine)
    IN AugmentFrom(1, extract_sections_from_log(all_lines_in_log), cand_lines)

\* augment._collect_block_from with every section header as stop header.
RECURSIVE collect_diag_block(_, _, _, _)
collect_diag_block(lines, i, max_len, out) ==
    IF i > Len(lines) \/ Len(out) >= max_len THEN out
    ELSE LET out2 == Append(out, lines[i])
         IN IF i + 1 <= Len(lines) /\ SectionOf(lines[i + 1]) # ""
            THEN out2
            ELSE collect_diag_block(lines, i + 1, max_len, out2)

\* _find_diag_blocks from index i
RECURSIVE find_diag_blocks(_, _)
find_diag_blocks(lines, i) ==
    IF i > Len(lines) THEN <<>>
    ELSE IF DiagMatch(lines[i])
    THEN LET block == collect_diag_block(lines, i, 800, <<>>)
         IN <<block>> \o find_diag_blocks(lines, i + Len(block))
    ELSE find_diag_blocks(lines, i + 1)

\* _norm_line of augment._normalize_text_block: one bracket group removed.
norm_line(cs) ==
    LET g1 == TsGroup(cs, SkipWs(cs, 1))
        x == IF g1 = 0 THEN cs ELSE SubSeq(cs, g1, Len(cs))
    IN StripWs(CollapseWs(x))

\* augment._normalize_text_block on the text of the lines lns: the lines of
\* the text it returns.
augment_normalize_text_block(lns) ==
    [k \in 1..Len(Resplit(lns)) |-> norm_line(Chars(lns[k]))]

\* h in text, for a line h (no "\n" in it) and a text given by its lines
InText(h, text_lines) ==
    \E k \in 1..Len(text_lines) : IsSub(h, text_lines[k])

\* _cand_contains_block
cand_contains_block(cand_text_norm, block) ==
    LET two == SubSeq(block, 1, IF Len(block) < 2 THEN Len(block) ELSE 2)
        head_two == SelectSeq(two, NonBlankLine)
    IN /\ head_two # <<>>
       /\ \A k \in 1..Len(head_two) :
              LET h == norm_line(Chars(head_two[k]))
              IN h # <<>> /\ InText(h, cand_text_norm)

\* The loop of augment_diagnostics_tail over the blocks, from the k-th.
RECURSIVE DiagTailFrom(_, _, _, _)
DiagTailFrom(k, blocks, cand_norm, out) ==
    IF k > Len(blocks) THEN out
    ELSE IF ~cand_contains_block(cand_norm, blocks[k])
    THEN DiagTailFrom(k + 1, blocks,
             cand_norm \o augment_normalize_text_block(blocks[k]),
             out \o SelectSeq(blocks[k], NonBlankLine))
    ELSE DiagTailFrom(k + 1, blocks, cand_norm, out)

\* augment_diagnostics_tail: the lines of the text it returns.
augment_diagnostics_tail(all_lines_in_log, cand) ==
    LET blocks == find_diag_blocks(all_lines_in_log, 1)
    IN IF blocks = <<>> THEN cand
       ELSE DiagTailFrom(1, blocks, augment_normalize_text_block(cand),
                         Resplit(cand))

\* SyzPolicy(call_trace_max=args.call_trace_max or 25, ...): the fields the
\* pipeline sets from its arguments that a claim speaks of.
SyzPolicy(ctm) == [call_trace_max |-> ctm, forbid_question_mark |-> TRUE]

\* _TS_PREFIX.sub("", line).strip()
CleanLine(s) ==
    LET cs == Chars(s)
    IN Str(StripWs(SubSeq(cs, TsPrefixEnd(cs), Len(cs))))

\* The local _normalize_for_match of apply_syzbot_policy.
DedupKey(s) == StripWs(CollapseWs(Chars(s)))

\* The de-duplication loop of apply_syzbot_policy: blank lines are skipped,
\* the first line of each key is kept.
RECURSIVE PolicyDedup(_, _)
PolicyDedup(lns, seen) ==
    IF lns = <<>> THEN <<>>
    ELSE IF ~NonBlankLine(Head(lns)) THEN PolicyDedup(Tail(lns), seen)
    ELSE IF DedupKey(Head(lns)) \in seen THEN PolicyDedup(Tail(lns), seen)
    ELSE <<Head(lns)>> \o PolicyDedup(Tail(lns), seen \cup {DedupKey(Head(lns))})

\* Mutant of apply_syzbot_policy: lines with a question mark are kept.
apply_syzbot_policy_KeepMarks(lns, policy) ==
    LET text == Resplit(lns)
    IN PolicyDedup([k \in 1..Len(text) |-> CleanLine(text[k])], {})

\* apply_syzbot_policy: the lines of the text it returns.  The argument
\* policy is not read.  dedup_lines holds no blank line, so the passes that
\* compress and trim blank lines return it as it is.
apply_syzbot_policy(lns, policy) ==
    LET text == Resplit(lns)
        cleaned == [k \in 1..Len(text) |-> CleanLine(text[k])]
        NoMark(ln) == ~HasQuestionMark(Chars(ln))
    IN PolicyDedup(SelectSeq(cleaned, NoMark), {})

\* The loop of _split_into_buckets from the k-th line.
RECURSIVE BucketsFrom(_, _, _, _)
BucketsFrom(lns, k, current, buckets) ==
    IF k > Len(lns) THEN buckets
    ELSE LET matched == RxKey(normalize_for_match(lns[k]))
             cur == IF matched # "" THEN matched ELSE current
         IN IF cur = "" THEN BucketsFrom(lns, k + 1, cur, buckets)
            ELSE BucketsFrom(lns, k + 1, cur,
                     [buckets EXCEPT ![cur] = Append(@, lns[k])])

split_into_buckets(lns) ==
    BucketsFrom(Resplit(lns), 1, "",
                [k \in Range(SECTION_ORDER) |-> <<>>])

\* sum(buckets.values(), [])
RECURSIVE BucketLines(_, _)
BucketLines(buckets, k) ==
    IF k > Len(SECTION_ORDER) THEN <<>>
    ELSE buckets[SECTION_ORDER[k]] \o BucketLines(buckets, k + 1)

\* len("\n".join(sum(buckets.values(), [])).splitlines())
CountBucketLines(buckets) == Len(Resplit(BucketLines(buckets, 1)))

\* The source logs explored, as lines.
PostLogs ==
    {<<>>,
     <<"note">>,
     <<"BUG: KASAN: uaf in f", "Call Trace:", "dump_stack+0x1/0x2",
       "f+0x1/0x2", "g+0x3/0x4", "h+0x5/0x6", "note?",
       "Allocated by task 1:", "f+0x1/0x2", "RIP: 0010:f", "RSP: 0018:0 ?">>,
     <<"[ 1.0] note", "[ 1.0] Call Trace:", "f+0x1/0x2",
       "[ 1.0] [ 2.0] [ 3.0] note", "note{U+FF1F}">>,
     <<"note", "RIP: 0010:f", "note?", "Call Trace:", "f+0x1/0x2",
       "g+0x3/0x4">>}

\* The line passes sanitize_from_log against the log, or is a line of the
\* log (rule fallback).
GroundedLine(s, lines) ==
    LET cs == Chars(s)
        ns == normalize_line(cs)
    IN /\ cs # <<>>
       /\ \/ InText(cs, [k \in 1..Len(lines) |-> Chars(lines[k])])
          \/ /\ ns # <<>>
             /\ InText(ns, [k \in 1..Len(lines) |->
                                normalize_line(Chars(lines[k]))])

\* merged_lines: a line equal to the line before it is not repeated.
NoRepeat(lns) == \A k \in 1..(Len(lns) - 1) : lns[k] # lns[k + 1]

\* The merged candidates of a log with at most n lines: lines of stored
\* segments, each grounded in the log.
MergedUpTo(lines, n) ==
    {c \in SeqsUpTo({s \in PostCatalog : GroundedLine(s, lines)}, n) :
        NoRepeat(c)}

MergedCandidates(lines) == MergedUpTo(lines, MaxCand)

PostIdle ==
    /\ postLog = <<>> /\ call_trace_max = 0 /\ postMerged = <<>>
    /\ postBefore = <<>> /\ postCand = <<>> /\ qm_filtered = -1
    /\ postPc = "idle"

PostStart ==
    /\ postLog \in PostLogs
    /\ call_trace_max \in 1..MaxTraceCap
    /\ postMerged \in MergedCandidates(postLog)
    /\ postCand = postMerged
    /\ postBefore = <<>>
    /\ qm_filtered = -1
    /\ postPc = "merged"

\* if candidate_text: is false; the record gets the empty candidate.
PostSkip ==
    /\ postPc = "merged"
    /\ postCand = <<>>
    /\ postPc' = "done"
    /\ UNCHANGED <<postLog, call_trace_max, postMerged, postBefore, postCand,
                   qm_filtered>>
    /\ UNCHANGED notPostVars

\* candidate_text = augment_missing_sections(lines, candidate_text)
\* candidate_text = augment_diagnostics_tail(lines, candidate_text)
PostAugment ==
    /\ postPc = "merged"
    /\ postCand # <<>>
    /\ postCand' = augment_diagnostics_tail(postLog,
                       augment_missing_sections(postLog, postCand))
    /\ postPc' = "augmented"
    /\ UNCHANGED <<postLog, call_trace_max, postMerged, postBefore,
                   qm_filtered>>
    /\ UNCHANGED notPostVars

\* candidate_text = apply_syzbot_policy(candidate_text, policy)
PostPolicy ==
    /\ postPc = "augmented"
    /\ postBefore' = postCand
    /\ postCand' = apply_syzbot_policy(postCand, SyzPolicy(call_trace_max))
    /\ postPc' = "policied"
    /\ UNCHANGED <<postLog, call_trace_max, postMerged, qm_filtered>>
    /\ UNCHANGED notPostVars

\* candidate_text = order_normalize(candidate_text), then
\* rec.note_policy_caps(..., qm_filtered=max(0, qm_before - qm_after))
PostOrder ==
    /\ postPc = "policied"
    /\ LET qm_before == CountBucketLines(split_into_buckets(postBefore))
           qm_after == CountBucketLines(split_into_buckets(postCand))
       IN qm_filtered' = IF qm_before > qm_after THEN qm_before - qm_after
                         ELSE 0
    /\ postCand' = LinesOf(order_normalize(Resplit(postCand)))
    /\ postPc' = "done"
    /\ UNCHANGED <<postLog, call_trace_max, postMerged, postBefore>>
    /\ UNCHANGED notPostVars

PostNext == PostSkip \/ PostAugment \/ PostPolicy \/ PostOrder

\* ------------------------------------------------------------------------
\* The loop of main over the input records: pipelines/pl_extract.py,
\* lines 92-307
\* ------------------------------------------------------------------------
\* Bounds of the inputs explored.
MaxRecords == 3
MaxRowCand == 1

\* The default of --call_trace_max.
CALL_TRACE_MAX == 25

\* The ids and logs of the input records; "" is a record without an id.
RowIds == {"a", ""}
RowLogs == {<<>>, <<"note?">>, <<"BUG: KASAN: uaf in f", "note">>}

\* What the calls of the oracle of one record came to: every window failed
\* the same way, or some window gave kept lines.
OracleOutcomes == {"ok", "timeout", "bad", "empty"}

\* gid_all = row.get("id") or row.get("gid") or "sample"
GidAll(row) == IF row.id # "" THEN row.id ELSE "sample"

\* The merged candidates a record can come to: with no window there is no
\* call and no segment; when every call fails the segments are those of the
\* rule fallback, lines of the log or none.
RowMerged(lines, status) ==
    IF status = "ok" THEN MergedUpTo(lines, MaxRowCand) \ {<<>>}
    ELSE {c \in MergedUpTo(lines, MaxRowCand) : Range(c) \subseteq Range(lines)}

\* candidate_text at line 301, from the merged candidate of line 252.
final_candidate(lines, merged, ctm) ==
    IF merged = <<>> THEN <<>>
    ELSE LET augmented == augment_diagnostics_tail(lines,
                              augment_missing_sections(lines, merged))
             policied == apply_syzbot_policy(augmented, SyzPolicy(ctm))
         IN LinesOf(order_normalize(Resplit(policied)))

\* Mutant of the append of line 301: a record with an empty candidate is
\* left out.
AppendCandidate_NonEmpty(cands, rec) ==
    IF rec.candidate = <<>> THEN cands ELSE Append(cands, rec)

\* all_candidates.append({"id": gid_all, "candidate": candidate_text})
AppendCandidate(cands, rec) == Append(cands, rec)

MainIdle ==
    /\ logs = <<>> /\ rowIdx = 0 /\ all_candidates = <<>>
    /\ all_explains = <<>> /\ candidates_jsonl = <<>> /\ mainPc = "idle"

MainStart ==
    /\ logs \in SeqsUpTo([id : RowIds, log : RowLogs], MaxRecords)
    /\ rowIdx = 0
    /\ all_candidates = <<>>
    /\ all_explains = <<>>
    /\ candidates_jsonl = <<>>
    /\ mainPc = "loop"

\* One pass of  for row in logs:  windows, calls, merge, post-processing and
\* the two appends.
MainRow ==
    /\ mainPc = "loop"
    /\ rowIdx < Len(logs)
    /\ LET row == logs[rowIdx + 1]
           lines == row.log
       IN \E status \in (IF lines = <<>> THEN {"none"} ELSE OracleOutcomes) :
          \E merged \in RowMerged(lines, status) :
              /\ all_candidates' =
                     AppendCandidate(all_candidates,
                         [id |-> GidAll(row),
                          candidate |-> final_candidate(lines, merged,
                                                        CALL_TRACE_MAX)])
              /\ all_explains' =
                     Append(all_explains,
                            [id |-> GidAll(row), status |-> status,
                             merged |-> merged])
    /\ rowIdx' = rowIdx + 1
    /\ UNCHANGED <<logs, candidates_jsonl, mainPc>>
    /\ UNCHANGED notMainVars

\* write_jsonl(all_candidates, ".../candidates.jsonl") after the loop
MainWrite ==
    /\ mainPc = "loop"
    /\ rowIdx = Len(logs)
    /\ candidates_jsonl' = all_candidates
    /\ mainPc' = "written"
    /\ UNCHANGED <<logs, rowIdx, all_candidates, all_explains>>
    /\ UNCHANGED notMainVars

MainNext == MainRow \/ MainWrite

\* ------------------------------------------------------------------------
\* Specifications
\* ------------------------------------------------------------------------
WinInit ==
    WinStart /\ PolIdle /\ SchedIdle /\ OrdIdle /\ SanIdle /\ ColIdle /\ PostIdle
    /\ MainIdle
WinSpec == WinInit /\ [][WinNext]_vars
\* chunk_lines runs in the main thread: its loop goes on while it can.
FairWin == WinSpec /\ WF_vars(ChunkLoop)

PolInit ==
    PolStart /\ WinIdle /\ SchedIdle /\ OrdIdle /\ SanIdle /\ ColIdle /\ PostIdle
    /\ MainIdle
PolSpec == PolInit /\ [][PolNext]_vars

SchedInit ==
    SchedStart /\ WinIdle /\ PolIdle /\ OrdIdle /\ SanIdle /\ ColIdle /\ PostIdle
    /\ MainIdle
SchedSpec == SchedInit /\ [][SchedNext]_vars
\* Every call of the oracle ends: llm.chat posts with a connect and a read
\* timeout (llm_client.py line 141) and returns or raises.
FairSched == SchedSpec /\ WF_vars(SchedProgram) /\ WF_vars(SchedOracle)
\* The oracle's call may never end; the program's own steps are taken.
FairHang == SchedSpec /\ WF_vars(SchedProgram)

OrdInit ==
    OrdStart /\ WinIdle /\ PolIdle /\ SchedIdle /\ SanIdle /\ ColIdle /\ PostIdle
    /\ MainIdle
OrdSpec == OrdInit /\ [][OrdNext]_vars

SanInit ==
    SanStart /\ WinIdle /\ PolIdle /\ SchedIdle /\ OrdIdle /\ ColIdle /\ PostIdle
    /\ MainIdle
SanSpec == SanInit /\ [][SanNext]_vars

ColInit ==
    ColStart /\ WinIdle /\ PolIdle /\ SchedIdle /\ OrdIdle /\ SanIdle /\ PostIdle
    /\ MainIdle
ColSpec == ColInit /\ [][ColNext]_vars

PostInit ==
    PostStart /\ WinIdle /\ PolIdle /\ SchedIdle /\ OrdIdle /\ SanIdle /\ ColIdle
    /\ MainIdle
PostSpec == PostInit /\ [][PostNext]_vars

MainInit ==
    MainStart /\ WinIdle /\ PolIdle /\ SchedIdle /\ OrdIdle /\ SanIdle /\ ColIdle
    /\ PostIdle
MainSpec == MainInit /\ [][MainNext]_vars

\* ------------------------------------------------------------------------
\* C5: window coverage of anchors
\* ------------------------------------------------------------------------
Covered(a) == \E k \in 1..Len(spans) : spans[k][1] <= a /\ a < spans[k][2]

\* C5 (as claimed): once make_windows has returned in anchor mode, every
\* anchor line index lies inside some returned span (s <= a < e), also after
\* intervals were merged and re-clipped to max_lines.
C5_AnchorsCovered ==
    (winPc = "done" /\ span_mode = "anchor") => \A a \in anchorIdx : Covered(a)

\* ------------------------------------------------------------------------
\* C6: termination of the adaptive policy
\* ------------------------------------------------------------------------
MaxPolicyDepth == Max(SPLIT_MAX_DEPTH, SHRINK_MAX_DEPTH)

\* C6: along every parent-to-child chain of schedule_adaptive, starting from
\* any task, a child-less task (fallback) is reached within
\* max(SPLIT_MAX_DEPTH, SHRINK_MAX_DEPTH) + 1 applications; each application
\* that yields children raises the depth by exactly 1, and a task whose depth
\* is >= max(SPLIT_MAX_DEPTH, SHRINK_MAX_DEPTH) yields no child.
C6_PolicyTerminates ==
    /\ polSteps <= MaxPolicyDepth + 1
    /\ (polPc = "run" => polTask.depth = polStart.depth + polSteps)
    /\ (polPc = "run" /\ polTask.depth >= MaxPolicyDepth
          => schedule_adaptive(polTask) = <<>>)
    /\ (polPc = "run" => \/ ENABLED PolRetry
                         \/ ENABLED PolFallback)

\* A chain from a depth-0 batch that used all max + 1 applications.
C6_Witness ==
    /\ polPc = "fallback"
    /\ polStart.depth = 0
    /\ Len(polStart.gids) > 1
    /\ polSteps = MaxPolicyDepth + 1

\* ------------------------------------------------------------------------
\* C2: every window reaches a terminal status
\* ------------------------------------------------------------------------
\* C2: whatever the oracle answers and in whatever order the tasks complete,
\* the scheduler loop and the last fallback pass finish, and from then on
\* every window of the log is in done_gids or in fail_gids.
C2_AllWindowsTerminal ==
    <>[](schedPc = "done" /\ Windows \subseteq (done_gids \cup fail_gids))

\* A finished run with a window done by a step of the loop, a window failed by
\* the fallback, and a window the last pass had to pick up.
C2_Witness ==
    /\ schedPc = "done"
    /\ fail_gids # {}
    /\ \E h \in hist : h.kept # {} /\ Range(h.gids) \ h.kept # {}

\* ------------------------------------------------------------------------
\* C7: the merged text does not depend on the completion order
\* ------------------------------------------------------------------------
InitialTasks ==
    [k \in 1..Len(id_groups) |->
        Task(id_groups[k], token_budget, max_lines, stride, 0, 2)]

HistOf(t) == CHOOSE h \in hist : h.gids = t.gids /\ h.depth = t.depth

\* The lines window g ends with, read off the outcomes alone: the response
\* that kept lines for g, else the fallback of g.
RECURSIVE Resolve(_, _)
Resolve(t, g) ==
    LET h == HistOf(t)
        ch == schedule_adaptive(t)
    IN IF h.kept # {}
       THEN (IF g \in h.kept THEN OracleLines(g, t) ELSE FallbackLines[g])
       ELSE IF ch = <<>> THEN FallbackLines[g]
       ELSE Resolve(ch[CHOOSE k \in 1..Len(ch) : g \in Range(ch[k].gids)], g)

ExpectedSegs ==
    [g \in Windows |->
        LET t == InitialTasks[CHOOSE k \in 1..Len(InitialTasks) :
                                 g \in Range(InitialTasks[k].gids)]
        IN IF Resolve(t, g) = <<>> THEN <<>> ELSE <<Resolve(t, g)>>]

\* C7: for a fixed log and a fixed outcome per task, the merged candidate is
\* the one text determined by the outcomes: the windows' segments joined by
\* window index, consecutive equal lines emitted once; the order in which the
\* tasks completed does not show in it.
C7_MergeByWindowIndex ==
    schedPc = "done" => candidate_text = Merged(ordered_chunks, ExpectedSegs)

\* A finished run whose segments were stored out of window order.
C7_Witness ==
    /\ schedPc = "done"
    /\ \E i, j \in 1..Len(segOrder) : i < j /\ segOrder[i] > segOrder[j]
    /\ Len(candidate_text) >= 2

\* ------------------------------------------------------------------------
\* C8: oracle failures are not fatal and share one path
\* ------------------------------------------------------------------------
FailureCauses == {"late", "raise", "nomarker", "ungrounded"}

Live(t, q, fs) == t \in Range(q) \/ \E f \in fs : f.task = t

\* C8: when the loop handles a finished task whose call (a) ran past the
\* deadline, (b) raised, (c) answered with no marker pair of any window or
\* (d) answered with lines that all fail validation, the status is timeout,
\* bad or empty, the loop goes on, and the next step is the same for all four:
\* the children of schedule_adaptive are queued or dispatched, or, when there
\* are none, every window of the task has been through the fallback (done or
\* failed).
C8_FailuresSharePath ==
    [][\A f \in futures :
         (schedPc = "loop" /\ f.st = "done" /\ f.cause \in FailureCauses
            /\ f \notin futures')
         => /\ StatusOf(f) \in {"timeout", "bad", "empty"}
            /\ schedPc' = "loop"
            /\ IF schedule_adaptive(f.task) # <<>>
               THEN \A k \in 1..Len(schedule_adaptive(f.task)) :
                      Live(schedule_adaptive(f.task)[k], workq', futures')
               ELSE Range(f.task.gids) \subseteq (done_gids' \cup fail_gids')
      ]_vars

\* The loop has handled a failure at the last depth (fallback) and a failure
\* that was retried.
C8_Witness ==
    /\ schedPc = "loop"
    /\ \E h \in hist : /\ h.kept = {} /\ h.depth = SHRINK_MAX_DEPTH
                       /\ Range(h.gids) \subseteq (done_gids \cup fail_gids)
    /\ \E h \in hist : h.kept = {} /\ h.depth = 0
    /\ \E f \in futures : f.st = "done" /\ f.cause = "raise"

\* ------------------------------------------------------------------------
\* C9: hard timeout
\* ------------------------------------------------------------------------
SomeExpired == \E f \in futures : f.st = "expired"

\* C9 (as claimed): once the deadline of a dispatched task has expired with
\* its call still running, the task ends (status timeout, slot released)
\* whether or not the call ever returns.
C9_HardTimeout == SomeExpired ~> ~SomeExpired

\* ------------------------------------------------------------------------
\* C10: bounded worker pool
\* ------------------------------------------------------------------------
\* C10: at no point are more tasks in flight than LLM_CONCURRENCY.
C10_BoundedPool == Cardinality(futures) <= max_workers

\* The pool is full while a task waits in the queue.
C10_Witness ==
    /\ schedPc = "loop"
    /\ Cardinality(futures) = max_workers
    /\ max_workers > 1
    /\ workq # <<>>

\* ------------------------------------------------------------------------
\* C1: grounding of window results
\* ------------------------------------------------------------------------
Grounded(ln) ==
    \/ IsSub(ln, logtxt)
    \/ IsSub(normalize_line(ln), normalize_text_block(logtxt))

\* C1: every line of every stored segment, whether it came from the
\* sanitized answer of the oracle or from the rule fallback, occurs in the
\* source log verbatim, or occurs in the normalized log once its leading
\* timestamp brackets are stripped and its white space collapsed.
C1_Grounding ==
    \A k \in 1..Len(sanSegs) :
        \A ln \in Range(splitlines(sanSegs[k].seg)) : Grounded(ln)

\* Two segments are stored: one from the oracle with a line that is in the
\* log only after normalization, one from the fallback.
C1_Witness ==
    /\ Len(sanSegs) = 2
    /\ \E k \in 1..2 :
          /\ sanSegs[k].by = "oracle"
          /\ \E ln \in Range(splitlines(sanSegs[k].seg)) : ~IsSub(ln, logtxt)
    /\ \E k \in 1..2 : sanSegs[k].by = "fallback"

\* ------------------------------------------------------------------------
\* C3: idempotence of the canonical orderer
\* ------------------------------------------------------------------------
\* C3 (as claimed): order_normalize applied to its own output returns that
\* output unchanged.
C3_OrderIdempotent ==
    ordPc = "twice" => LinesOf(ordOut2) = LinesOf(ordOut)

\* ------------------------------------------------------------------------
\* C4: section order of the output
\* ------------------------------------------------------------------------
\* The canonical order of the section labels.
CanonicalRank(lab) ==
    CASE lab = "BUG" -> 1 [] lab = "RW" -> 2 [] lab = "CPU" -> 3 [] lab = "HW" -> 4
      [] lab = "CALLTRACE" -> 5 [] lab = "ALLOC" -> 6 [] lab = "FREED" -> 7
      [] lab = "BUGGY" -> 8 [] lab = "MEM" -> 9 [] lab = "PAGE" -> 10
      [] lab = "RIPCODE" -> 11 [] lab = "REGS" -> 12 [] lab = "REBOOT" -> 13
      [] lab = "_OTHER" -> 14 [] OTHER -> 0

\* C4: in the output of order_normalize, the labels under which the
\* non-blank lines were emitted never decrease in the canonical order, and
\* every non-blank line has one of the fourteen labels.
C4_SectionOrder ==
    ordPc \in {"once", "twice"} =>
        \A i, j \in 1..Len(ordOut) :
            (i < j /\ ordOut[i].ln # "" /\ ordOut[j].ln # "")
            => /\ CanonicalRank(ordOut[i].lab) >= 1
               /\ CanonicalRank(ordOut[i].lab) <= CanonicalRank(ordOut[j].lab)

\* An input given in another order (a note, then the call trace, then the
\* BUG line) came out as three sections in canonical order.
C4_Witness ==
    /\ ordPc = "once"
    /\ ordIn = <<"note", "Call Trace:", "BUG: KASAN: uaf in f">>
    /\ LinesOf(ordOut) = <<"BUG: KASAN: uaf in f", "", "Call Trace:", "", "note">>

\* ------------------------------------------------------------------------
\* C18: the windows an ok task marks done
\* ------------------------------------------------------------------------
\* The tasks the step handled: a loop pass adds its task to hist.
Handled == hist' \ hist

\* C18 (as claimed): when a task completes with status ok, every window of
\* the task is in the done set after the step, the windows without a
\* validated line included.
C18_OkMarksAllDone ==
    [][\A h \in Handled : h.kept # {} => Range(h.gids) \subseteq done_gids']_vars

\* C18 (amended): when a task completes with status ok, the windows of the
\* task that yielded validated lines are in the done set after the step, and
\* the step marks no other window of the task: a window without a validated
\* line is done after the step only if it was done before.
C18_OkMarksKeptDone ==
    [][\A h \in Handled : h.kept # {} =>
          /\ h.kept \subseteq done_gids'
          /\ \A g \in Range(h.gids) \ h.kept :
                (g \in done_gids' <=> g \in done_gids)
                /\ chunk_segments'[g] = chunk_segments[g]]_vars

\* An ok task of two windows, one with validated lines and one without: the
\* first is done with its segment, the second is not done and has none.
C18_Witness ==
    \E h \in hist :
        /\ h.kept # {} /\ Range(h.gids) \ h.kept # {}
        /\ h.kept \subseteq done_gids
        /\ \E g \in Range(h.gids) \ h.kept :
              g \notin done_gids /\ chunk_segments[g] = <<>>

\* ------------------------------------------------------------------------
\* C19: one result per window
\* ------------------------------------------------------------------------
\* A handled task that went to the fallback in the loop: it failed and
\* schedule_adaptive had no child for it.
LoopFallback(h) ==
    /\ h.kept = {}
    /\ schedule_adaptive(Task(h.gids, token_budget, max_lines, stride,
                              h.depth, 0)) = <<>>

OneSegmentEach ==
    /\ \A g \in Windows : Len(chunk_segments[g]) <= 1
    /\ done_gids \cap fail_gids = {}

LastPassStep == schedPc = "final" /\ schedPc' = "merge"

\* C19 (as claimed): each window has at most one segment, no window is both
\* done and failed, and the fallback is never run on a window that is already
\* done or already failed, in the loop or in the last pass.
C19_ExactlyOnce ==
    /\ []OneSegmentEach
    /\ [][/\ \A h \in Handled : LoopFallback(h) =>
                Range(h.gids) \cap (done_gids \cup fail_gids) = {}
          /\ LastPassStep => Remaining \cap (done_gids \cup fail_gids) = {}]_vars

\* C19 (amended): each window has at most one segment, no window is both
\* done and failed, the fallback of the loop runs only on windows neither
\* done nor failed, and the last pass runs the fallback on every window that
\* is not done, the windows the fallback already failed included, and on no
\* done window; a window failed before the last pass is failed after it.
C19_OneResultEach ==
    /\ []OneSegmentEach
    /\ [][/\ \A h \in Handled : LoopFallback(h) =>
                Range(h.gids) \cap (done_gids \cup fail_gids) = {}
          /\ LastPassStep =>
                /\ Remaining \cap done_gids = {}
                /\ fail_gids \subseteq Remaining
                /\ fail_gids \subseteq fail_gids'
                /\ \A g \in done_gids : chunk_segments'[g] = chunk_segments[g]]_vars

\* A finished run in which the loop's fallback failed one window and another
\* window is done with its one segment.
C19_Witness ==
    /\ schedPc = "done"
    /\ \E h \in hist : LoopFallback(h) /\ Range(h.gids) \cap fail_gids # {}
    /\ \E g \in done_gids : Len(chunk_segments[g]) = 1

\* ------------------------------------------------------------------------
\* C20: bisection
\* ------------------------------------------------------------------------
\* The tasks waiting or running.
LiveTasks(q, fs) == Range(q) \cup {f.task : f \in fs}

\* C20: when a task of more than one window fails at a depth below
\* SPLIT_MAX_DEPTH, two tasks of depth + 1 are on the queue or running after
\* the step, with non-empty disjoint window lists whose concatenation,
\* left then right, is the parent's list.
C20_BisectionPartitions ==
    [][\A h \in Handled :
          (h.kept = {} /\ Len(h.gids) > 1 /\ h.depth < SPLIT_MAX_DEPTH) =>
             \E a, b \in LiveTasks(workq', futures') :
                /\ a.depth = h.depth + 1 /\ b.depth = h.depth + 1
                /\ a.gids # <<>> /\ b.gids # <<>>
                /\ Range(a.gids) \cap Range(b.gids) = {}
                /\ a.gids \o b.gids = h.gids
                /\ Cardinality({t \in LiveTasks(workq', futures') :
                       Range(t.gids) \cap Range(h.gids) # {}}) = 2]_vars

\* A task of three windows failed at depth 0 and its halves <<1, 2>> and <<3>>
\* are live at depth 1.
C20_Witness ==
    /\ \E h \in hist : h.kept = {} /\ h.gids = <<1, 2, 3>> /\ h.depth = 0
    /\ \E a, b \in LiveTasks(workq, futures) :
          a.gids = <<1, 2>> /\ b.gids = <<3>> /\ a.depth = 1 /\ b.depth = 1

\* ------------------------------------------------------------------------
\* C16: provenance of a window resolved by the fallback
\* ------------------------------------------------------------------------
\* The entries of the provenance record about window g.
RecOf(g) == {k \in 1..Len(polRec) : polRec[k].chunk_id = g}

\* Every call of the chain timed out: each application left one "timeout"
\* entry for the window.
AllTimedOut(g) ==
    /\ \A k \in RecOf(g) : polRec[k].span = "timeout"
    /\ Cardinality(RecOf(g)) = polSteps

\* C16 (as claimed): when every task of a window's chain timed out and the
\* window was handed to the fallback extractor, the provenance record holds
\* an entry that marks the window as resolved via fallback.
C16_FallbackMarked ==
    \A g \in Range(polTask.gids) :
        (polPc = "fallback" /\ AllTimedOut(g)) =>
            \E k \in RecOf(g) :
                \/ polRec[k].span = "fallback"
                \/ polRec[k].dropped_reason = "fallback"

\* ------------------------------------------------------------------------
\* C15: an answer with a line that is not in the log
\* ------------------------------------------------------------------------
\* The line is in the log as it stands.
Verbatim(ln) == ln # <<>> /\ IsSub(ln, colLog)

\* The line is not in the log, neither as it stands nor normalized.
NotInLog(ln) ==
    /\ ~IsSub(ln, colLog)
    /\ ~IsSub(normalize_line(ln), normalize_text_block(colLog))

\* C15: when the answer's part for the window holds a line that is not in the
\* log and a line that is, the task is ok, the kept lines hold every line
\* that is in the log and no line that is not, in the order of the answer,
\* and main takes neither the retry nor the fallback branch.
C15_UngroundedLineDropped ==
    LET lns == splitlines(colSeg)
        InKept(ln) == ln \in Range(colRes.kept)
    IN (/\ colPc \in {"collected", "handled"}
        /\ \E ln \in Range(lns) : NotInLog(ln)
        /\ \E ln \in Range(lns) : Verbatim(ln))
       => /\ colRes.status = "ok"
          /\ \A ln \in Range(lns) : NotInLog(ln) => ~InKept(ln)
          /\ \A ln \in Range(lns) : Verbatim(ln) => InKept(ln)
          /\ colRes.kept = SelectSeq(lns, InKept)
          /\ (colPc = "handled" => colNext = "done")

\* An answer of two lines, the first not in the log and the second in it:
\* the second alone is kept and main takes the ok branch.
C15_Witness ==
    /\ colPc = "handled"
    /\ Len(splitlines(colSeg)) = 2
    /\ NotInLog(splitlines(colSeg)[1])
    /\ Verbatim(splitlines(colSeg)[2])
    /\ colRes.kept = <<splitlines(colSeg)[2]>>
    /\ colNext = "done"

\* The line is a substring of the log, as it stands or once it and the log
\* are normalized as the validation normalizes them.
Traceable(s) ==
    \/ InText(Chars(s), [k \in 1..Len(postLog) |-> Chars(postLog[k])])
    \/ InText(normalize_line(Chars(s)),
              [k \in 1..Len(postLog) |-> normalize_line(Chars(postLog[k]))])

\* C11: at every stage after the merge (augmentation, policy, ordering) and
\* in the final candidate, every non-blank line of the candidate is a
\* substring of the source log, verbatim or after the normalization of
\* timestamps and white space.
C11_Traceability ==
    \A k \in 1..Len(postCand) :
        NonBlankLine(postCand[k]) => Traceable(postCand[k])

\* A final candidate with a line the augmenters added, a line that is in the
\* log only after normalization, and a line whose timestamp the policy cut.
C11_Witness ==
    /\ postPc = "done"
    /\ \E k \in 1..Len(postCand) : postCand[k] \notin Range(postMerged)
                                   /\ postCand[k] \in Range(postLog)
    /\ \E k \in 1..Len(postCand) :
           ~InText(Chars(postCand[k]),
                   [j \in 1..Len(postLog) |-> Chars(postLog[j])])
    /\ \E k \in 1..Len(postMerged) :
           /\ CleanLine(postMerged[k]) # postMerged[k]
           /\ CleanLine(postMerged[k]) \in Range(postCand)

\* The stack frames of the call-trace bucket of a candidate.
CallFrames(lns) == SelectSeq(split_into_buckets(lns)["CALL"], is_frame)

\* C13 (as claimed): when the candidate handed to the policy holds a call
\* trace of more than call_trace_max frames, the text the policy returns, and
\* the final candidate, hold at most call_trace_max frames of it.
C13_CallTraceCapped ==
    (/\ postPc \in {"policied", "done"}
     /\ Len(CallFrames(postBefore)) > call_trace_max)
        => Len(CallFrames(postCand)) <= call_trace_max

\* C14: no line of the final candidate holds a question mark, ASCII or
\* full-width, whatever the merged answer of the oracle held and whatever the
\* augmenters appended from the log.
C14_NoQuestionMark ==
    postPc = "done" =>
        \A k \in 1..Len(postCand) : ~HasQuestionMark(Chars(postCand[k]))

\* A non-empty final candidate of a run where the merged answer held a line
\* with a question mark and an augmenter appended another one from the log.
C14_Witness ==
    /\ postPc = "done"
    /\ postCand # <<>>
    /\ \E k \in 1..Len(postMerged) : HasQuestionMark(Chars(postMerged[k]))
    /\ \E k \in 1..Len(postBefore) :
           /\ HasQuestionMark(Chars(postBefore[k]))
           /\ postBefore[k] \notin Range(postMerged)

\* The lines apply_syzbot_policy drops for a question mark.
MarkedLines ==
    {k \in 1..Len(Resplit(postBefore)) :
        HasQuestionMark(Chars(CleanLine(postBefore[k])))}

\* C17 (as claimed): the recorded question_mark_filtered is the number of
\* lines of the candidate that the policy dropped for a question mark.
C17_DropRecorded ==
    (postPc = "done" /\ qm_filtered # -1)
        => qm_filtered = Cardinality(MarkedLines)

\* C12: the loop appends one record per input record, in input order and
\* under the id of the input record, whatever the record's log and oracle
\* calls came to; the file written after the loop holds one record per input
\* record.
C12_OneRecordPerInput ==
    /\ Len(all_candidates) = rowIdx
    /\ \A k \in 1..Len(all_candidates) :
           all_candidates[k].id = GidAll(logs[k])
    /\ mainPc = "written" =>
           /\ Len(candidates_jsonl) = Len(logs)
           /\ candidates_jsonl = all_candidates

\* A written run of three records: an empty log, a log whose oracle calls
\* all failed and whose fallback gave nothing, and a log whose only kept line
\* was dropped by the policy, next to a record with a candidate.
C12_Witness ==
    /\ mainPc = "written"
    /\ Len(logs) = MaxRecords
    /\ \E k \in 1..Len(logs) :
           logs[k].log = <<>> /\ candidates_jsonl[k].candidate = <<>>
    /\ \E k \in 1..Len(logs) :
           \/ /\ all_explains[k].status = "timeout"
              /\ all_explains[k].merged = <<>>
              /\ logs[k].log # <<>>
              /\ candidates_jsonl[k].candidate = <<>>
           \/ /\ all_explains[k].status = "ok"
              /\ candidates_jsonl[k].candidate = <<>>
    /\ \E k \in 1..Len(logs) : candidates_jsonl[k].candidate # <<>>

\* A step of the chain from a task to one of its children.
ChildStep == polPc = "run" /\ polTask' # polTask

\* The few-shot level of the child of a ChildStep is one less, not below 0.
FewshotReduced ==
    /\ polTask'.fewshot_level = Max(polTask.fewshot_level - 1, 0)
    /\ polTask'.fewshot_level \in 0..2

\* C21 (as claimed): every child of schedule_adaptive has a token budget and
\* a line budget that are no greater than its parent's and no smaller than
\* MIN_TOK and MIN_LINES, and the few-shot level max(parent level - 1, 0).
C21_BudgetsShrink ==
    [][ChildStep =>
           /\ polTask'.tok_budget <= polTask.tok_budget
           /\ polTask'.tok_budget >= MIN_TOK
           /\ polTask'.max_lines <= polTask.max_lines
           /\ polTask'.max_lines >= MIN_LINES
           /\ FewshotReduced]_vars

\* C21 (amended): every child has budgets at or above the floors; a budget of
\* the parent above its floor shrinks strictly, and a budget of the parent at
\* or below its floor becomes the floor (it can grow); the few-shot level is
\* max(parent level - 1, 0).
C21_BudgetsFloored ==
    [][ChildStep =>
           /\ polTask'.tok_budget >= MIN_TOK
           /\ polTask'.max_lines >= MIN_LINES
           /\ (polTask.tok_budget > MIN_TOK
                  => polTask'.tok_budget < polTask.tok_budget)
           /\ (polTask.max_lines > MIN_LINES
                  => polTask'.max_lines < polTask.max_lines)
           /\ (polTask.tok_budget <= MIN_TOK => polTask'.tok_budget = MIN_TOK)
           /\ (polTask.max_lines <= MIN_LINES
                  => polTask'.max_lines = MIN_LINES)
           /\ FewshotReduced]_vars

\* A child whose budgets were raised to the floors from a start below them,
\* after a split of a batch.
C21_Witness ==
    /\ polSteps >= 1
    /\ polStart.tok_budget < MIN_TOK /\ polTask.tok_budget = MIN_TOK
    /\ polStart.max_lines < MIN_LINES /\ polTask.max_lines = MIN_LINES
    /\ Len(polTask.gids) < Len(polStart.gids)

\* The text holds a primary marker line, and the line after the first one is
\* a complete non-empty line that is not a memory-state marker.
MarkerThenLine(t) ==
    LET kas == {i \in 1..Len(t) : KasanHead(t, i) # 0}
    IN /\ kas # {}
       /\ LET h == KasanHead(t, CHOOSE i \in kas : \A k \in kas : i <= k)
          IN ~MatchAt(t, h, LIT_MEM) /\ NonEmptyLines(t, h, 1) # h

\* C22 (as claimed): a segment that rule_extract_fallback returned for a
\* window whose text holds a primary marker line followed by further lines
\* goes on past the marker line, through the lines that follow it.
C22_FallbackExtent ==
    \A k \in 1..Len(sanSegs) :
        sanSegs[k].by = "fallback" =>
            \A e \in 1..Len(splitlines(logtxt)) : \A s \in 0..(e - 1) :
                (/\ rule_extract_fallback(gid2text(s, e)) = sanSegs[k].seg
                 /\ MarkerThenLine(gid2text(s, e)))
                    => Len(splitlines(sanSegs[k].seg)) >= 2

\* The log has the header of the section key, with or without a timestamp.
HeaderInLog(key) ==
    \E k \in 1..Len(postLog) :
        NeedsMatch(key, normalize_for_match(postLog[k]))

\* C23 (as claimed): after the augmentation stage, every must-have section
\* whose header is in the source log, with or without a leading timestamp
\* bracket, has a line matching its header pattern in the candidate.
C23_SectionsRestored ==
    postPc = "augmented" =>
        \A i \in 1..Len(NEEDS) :
            HeaderInLog(NEEDS[i]) => Present(NEEDS[i], postCand)

\* C24 (as claimed): no line of the output of order_normalize matches the
\* kernel-panic pattern or the kernel-offset pattern.
C24_PanicNeverEmitted ==
    ordPc \in {"once", "twice"} =>
        \A k \in 1..Len(ordOut) :
            ~R_PANIC(ordOut[k].ln) /\ ~R_OFFS(ordOut[k].ln)

\* C28 (as claimed): in the output of order_normalize no two lines emitted
\* under the same section bucket have the same normalized form.
C28_NoDuplicateInSection ==
    ordPc \in {"once", "twice"} =>
        \A j, k \in 1..Len(ordOut) :
            (/\ j < k
             /\ ordOut[j].lab = ordOut[k].lab
             /\ ~IsBlank(ordOut[j].ln))
                => normalize_for_match(ordOut[j].ln)
                       # normalize_for_match(ordOut[k].ln)

\* An input with two call-trace blocks whose header goes out once.
C28_Witness ==
    /\ ordPc = "once"
    /\ Len(find_ct_blocks_with_hoist(ordIn)) >= 2
    /\ \E k \in 1..Len(ordOut) : ordOut[k].lab = "CALLTRACE"

\* The line a claim expects of several header lines: of those with "comm:"
\* if there is one, else of all, the longest after normalization, and of
\* equally long ones the first.
Better(a, b) ==
    \/ score_cpu(a)[1] > score_cpu(b)[1]
    \/ score_cpu(a)[1] = score_cpu(b)[1] /\ NormLen(a) > NormLen(b)

ExpectedBest(c) ==
    c[CHOOSE i \in 1..Len(c) :
          /\ \A j \in 1..Len(c) : ~Better(c[j], c[i])
          /\ \A j \in 1..(i - 1) : Better(c[i], c[j])]

\* The lines of the output that match a header pattern.
OutCpu == SelectSeq(LinesOf(ordOut), R_CPU)
OutHw == SelectSeq(LinesOf(ordOut), R_HW)

SpanLen(k) == spans[k][2] - spans[k][1]
Overlap(k) == spans[k][2] - spans[k + 1][1]
SlidingDone == winPc = "done" /\ span_mode = "sliding"

\* The windows before the last have max_lines lines, the last ends at the
\* last line of the log.
FullThenLast ==
    /\ \A k \in 1..(Len(spans) - 1) : SpanLen(k) = cfg_max_lines
    /\ spans # <<>> /\ Last(spans)[2] = docLen

C26_ChunkLinesTerminates == (winPc = "chunk") ~> (winPc = "done")

\* C27: every span of make_windows, in anchor mode and in sliding mode, has
\* 0 <= start < end <= len(lines).
C27_SpanBounds ==
    \A k \in 1..Len(spans) :
        /\ 0 <= spans[k][1]
        /\ spans[k][1] < spans[k][2]
        /\ spans[k][2] <= docLen

\* Two anchors whose intervals were merged and cut back to max_lines: the
\* one span returned ends before the interval of the second anchor does.
C27_Witness ==
    /\ winPc = "done" /\ span_mode = "anchor"
    /\ Len(spans) = 1
    /\ SpanLen(1) = cfg_max_lines
    /\ \E b \in anchorIdx :
          AnchorInterval(b, docLen, cfg_max_lines, PRE)[2] > spans[1][2]

\* ------------------------------------------------------------------------
\* C30: ownership of the windows by the tasks
\* ------------------------------------------------------------------------
\* How many times window g stands in the list of task t.
TimesIn(g, t) == Cardinality({k \in 1..Len(t.gids) : t.gids[k] = g})

\* The places of the queue and the futures whose task holds window g.
QueuedWith(g) == {k \in 1..Len(workq) : TimesIn(g, workq[k]) > 0}
InFlightWith(g) == {f \in futures : TimesIn(g, f.task) > 0}

\* C30: in every state each window is held by at most one task that is
\* queued or in flight, once in its list, and a window of the done set is
\* held by no queued or in-flight task.
C30_WindowOwnership ==
    \A g \in Windows :
        /\ Cardinality(QueuedWith(g)) + Cardinality(InFlightWith(g)) <= 1
        /\ \A t \in LiveTasks(workq, futures) : TimesIn(g, t) <= 1
        /\ g \in done_gids => QueuedWith(g) = {} /\ InFlightWith(g) = {}

\* A task of several windows failed and was split, one window is done, and
\* both a queued and an in-flight task hold windows that are not.
C30_Witness ==
    /\ schedPc = "loop"
    /\ \E h \in hist : h.kept = {} /\ Len(h.gids) > 1
    /\ done_gids # {}
    /\ workq # <<>> /\ futures # {}
    /\ \A g \in Windows \ done_gids :
          Cardinality(QueuedWith(g)) + Cardinality(InFlightWith(g)) = 1

============================================================================
